---- MODULE Spec2Model ----
(***************************************************************************)
(* A model of the admonition pipeline of mdbook-admonish: parsing the      *)
(* config string of a fenced block, resolving it against the book          *)
(* configuration, and rendering the block with a per-chapter anchor id.    *)
(*                                                                         *)
(* Strings are sequences of one-character strings, so that slugging,       *)
(* upper-casing and concatenation are computed and not assumed.            *)
(* Option<T> is a sequence of length 0 (None) or 1 (Some).                 *)
(***************************************************************************)
EXTENDS Integers, Sequences, FiniteSets, TLC

VARIABLES
    book_custom,    \* the custom directives of the book configuration, as iterated
    overrides,      \* types.rs Overrides: book defaults, builtin overrides, custom map
    chapter,        \* how many chapters of the book have been started
    id_counter,     \* the HashMap<String, usize> of the chapter being processed
    rendered,       \* blocks rendered so far in the chapter being processed
    info_string,    \* info string of the fenced block handed to the config parser
    parsed,         \* what from_info_string returned, and the generations it tried
    raw,            \* InstanceConfig handed to AdmonitionMeta::resolve
    meta,           \* the resolved AdmonitionMeta and the lookup it rests on
    readonly,       \* book_config.rs ConfigReadonly: the custom declarations as read
    book_config,    \* book_config.rs Config: the declarations after the merge
    flavour_map,    \* what build_flavour_map returned for them
    block_content,  \* the span of a fenced block handed to extract_admonish_body
    extracted,      \* what extract_admonish_body returned for it
    document,       \* the text of the chapter being processed, piece by piece
    on_failure,     \* the configured on_failure policy
    position,       \* the piece the scan of preprocess looks at next
    admonish_blocks,\* the replacements recorded so far, each with its span
    output,         \* what preprocess returned
    pass,           \* how many times the text has been handed to preprocess
    render_text_mode,\* types.rs RenderTextMode: how preprocess renders a block
    ctx_renderer,   \* the name of the renderer the run is for
    run_config,     \* book_config.rs Config as loaded for the run
    book_items,     \* the chapters of the book, each with its text
    render_mode,    \* the render mode Admonish::run settled on, once it has
    run_result      \* what Admonish::run returned

registry_vars == <<readonly, book_config, flavour_map>>

extract_vars == <<block_content, extracted>>

document_vars ==
    <<document, on_failure, position, admonish_blocks, output, pass, render_text_mode>>

run_vars == <<ctx_renderer, run_config, book_items, render_mode, run_result>>

vars ==
    <<book_custom, overrides, chapter, id_counter, rendered, info_string, parsed, raw,
      meta, registry_vars, extract_vars, document_vars,
      run_vars>>

\* The value of a variable the specification at hand has not set yet, or
\* does not use.
Idle == <<>>
RegistryIdle == readonly = Idle /\ book_config = Idle /\ flavour_map = Idle
ExtractIdle == block_content = Idle /\ extracted = Idle
RunIdle ==
    /\ ctx_renderer = Idle
    /\ run_config = Idle
    /\ book_items = Idle
    /\ render_mode = Idle
    /\ run_result = Idle
DocumentIdle ==
    /\ document = Idle
    /\ on_failure = Idle
    /\ position = Idle
    /\ admonish_blocks = Idle
    /\ output = Idle
    /\ pass = Idle
    /\ render_text_mode = Idle

(***************************************************************************)
(* Bounds of the model.                                                    *)
(***************************************************************************)
MaxChapters == 2
MaxBlocks == 3
MaxCustom == 2
MaxTokens == 4
MaxDeprecated == 2
MaxSpan == 10
MaxPieces == 3
MaxPasses == 2
MaxIndent == 2

(***************************************************************************)
(* Option and string helpers.                                              *)
(***************************************************************************)
None == <<>>
Some(v) == <<v>>
is_some(o) == Len(o) = 1
unwrap(o) == o[1]
unwrap_or(o, d) == IF is_some(o) THEN o[1] ELSE d
or_else(o, p) == IF is_some(o) THEN o ELSE p

UpperLetters ==
    <<"A", "B", "C", "D", "E", "F", "G", "H", "I", "J", "K", "L", "M",
      "N", "O", "P", "Q", "R", "S", "T", "U", "V", "W", "X", "Y", "Z">>
LowerLetters ==
    <<"a", "b", "c", "d", "e", "f", "g", "h", "i", "j", "k", "l", "m",
      "n", "o", "p", "q", "r", "s", "t", "u", "v", "w", "x", "y", "z">>
Digits == <<"0", "1", "2", "3", "4", "5", "6", "7", "8", "9">>

Range(s) == { s[i] : i \in DOMAIN s }
is_upper(c) == c \in Range(UpperLetters)
is_lower(c) == c \in Range(LowerLetters)
is_digit(c) == c \in Range(Digits)
is_alphanumeric(c) == is_upper(c) \/ is_lower(c) \/ is_digit(c)
is_whitespace(c) == c \in {" ", "\t", "\n"}

to_ascii_lowercase(c) ==
    IF is_upper(c)
    THEN LowerLetters[CHOOSE i \in DOMAIN UpperLetters : UpperLetters[i] = c]
    ELSE c
to_uppercase(c) ==
    IF is_lower(c)
    THEN UpperLetters[CHOOSE i \in DOMAIN LowerLetters : LowerLetters[i] = c]
    ELSE c

\* usize as Display: decimal digits, most significant first.
RECURSIVE usize_to_string(_)
usize_to_string(n) ==
    IF n < 10 THEN <<Digits[n + 1]>>
    ELSE usize_to_string(n \div 10) \o <<Digits[(n % 10) + 1]>>

\* str::trim, str::trim_start, str::trim_end on whitespace.
RECURSIVE trim_start(_)
trim_start(s) ==
    IF s # <<>> /\ is_whitespace(Head(s)) THEN trim_start(Tail(s)) ELSE s
RECURSIVE trim_end(_)
trim_end(s) ==
    IF s # <<>> /\ is_whitespace(s[Len(s)])
    THEN trim_end(SubSeq(s, 1, Len(s) - 1)) ELSE s
trim(s) == trim_end(trim_start(s))

(***************************************************************************)
(* resolve.rs: upper-casing of directive tokens.                           *)
(***************************************************************************)
\* A mutant of uppercase_first: the first letter is left as typed.
uppercase_first_unchanged(input) == input

uppercase_first(input) ==
    IF input = <<>> THEN <<>>
    ELSE <<to_uppercase(Head(input))>> \o Tail(input)

format_builtin_directive_title(input) ==
    CASE input = <<"t", "l", "d", "r">> -> <<"T", "L", ";", "D", "R">>
      [] input = <<"f", "a", "q">> -> <<"F", "A", "Q">>
      [] OTHER -> uppercase_first(input)

(***************************************************************************)
(* types.rs: the builtin directives.                                       *)
(***************************************************************************)
Ok(v) == [ok |-> TRUE, v |-> v]
Err(e) == [ok |-> FALSE, e |-> e]

BuiltinDirective ==
    {"Note", "Abstract", "Info", "Tip", "Success", "Question", "Warning",
     "Failure", "Danger", "Bug", "Example", "Quote"}

BuiltinDirective_from_str(string) ==
    CASE string = <<"n", "o", "t", "e">> -> Ok("Note")
      [] string = <<"a", "b", "s", "t", "r", "a", "c", "t">> -> Ok("Abstract")
      [] string = <<"s", "u", "m", "m", "a", "r", "y">> -> Ok("Abstract")
      [] string = <<"t", "l", "d", "r">> -> Ok("Abstract")
      [] string = <<"i", "n", "f", "o">> -> Ok("Info")
      [] string = <<"t", "o", "d", "o">> -> Ok("Info")
      [] string = <<"t", "i", "p">> -> Ok("Tip")
      [] string = <<"h", "i", "n", "t">> -> Ok("Tip")
      [] string = <<"i", "m", "p", "o", "r", "t", "a", "n", "t">> -> Ok("Tip")
      [] string = <<"s", "u", "c", "c", "e", "s", "s">> -> Ok("Success")
      [] string = <<"c", "h", "e", "c", "k">> -> Ok("Success")
      [] string = <<"d", "o", "n", "e">> -> Ok("Success")
      [] string = <<"q", "u", "e", "s", "t", "i", "o", "n">> -> Ok("Question")
      [] string = <<"h", "e", "l", "p">> -> Ok("Question")
      [] string = <<"f", "a", "q">> -> Ok("Question")
      [] string = <<"w", "a", "r", "n", "i", "n", "g">> -> Ok("Warning")
      [] string = <<"c", "a", "u", "t", "i", "o", "n">> -> Ok("Warning")
      [] string = <<"a", "t", "t", "e", "n", "t", "i", "o", "n">> -> Ok("Warning")
      [] string = <<"f", "a", "i", "l", "u", "r", "e">> -> Ok("Failure")
      [] string = <<"f", "a", "i", "l">> -> Ok("Failure")
      [] string = <<"m", "i", "s", "s", "i", "n", "g">> -> Ok("Failure")
      [] string = <<"d", "a", "n", "g", "e", "r">> -> Ok("Danger")
      [] string = <<"e", "r", "r", "o", "r">> -> Ok("Danger")
      [] string = <<"b", "u", "g">> -> Ok("Bug")
      [] string = <<"e", "x", "a", "m", "p", "l", "e">> -> Ok("Example")
      [] string = <<"q", "u", "o", "t", "e">> -> Ok("Quote")
      [] string = <<"c", "i", "t", "e">> -> Ok("Quote")
      [] OTHER -> Err("unit")

BuiltinDirective_fmt(self) ==
    CASE self = "Note" -> <<"n", "o", "t", "e">>
      [] self = "Abstract" -> <<"a", "b", "s", "t", "r", "a", "c", "t">>
      [] self = "Info" -> <<"i", "n", "f", "o">>
      [] self = "Tip" -> <<"t", "i", "p">>
      [] self = "Success" -> <<"s", "u", "c", "c", "e", "s", "s">>
      [] self = "Question" -> <<"q", "u", "e", "s", "t", "i", "o", "n">>
      [] self = "Warning" -> <<"w", "a", "r", "n", "i", "n", "g">>
      [] self = "Failure" -> <<"f", "a", "i", "l", "u", "r", "e">>
      [] self = "Danger" -> <<"d", "a", "n", "g", "e", "r">>
      [] self = "Bug" -> <<"b", "u", "g">>
      [] self = "Example" -> <<"e", "x", "a", "m", "p", "l", "e">>
      [] self = "Quote" -> <<"q", "u", "o", "t", "e">>

(***************************************************************************)
(* types.rs: custom directives and the map from input token to directive.  *)
(* A HashMap is a function whose domain is its key set.                    *)
(***************************************************************************)
CustomDirective(directive, aliases, title, collapsible) ==
    [directive |-> directive, aliases |-> aliases,
     title |-> title, collapsible |-> collapsible]

HashMap_new == [k \in {} |-> None]
HashMap_get(map, key) == IF key \in DOMAIN map THEN Some(map[key]) ELSE None
\* entry(key).or_insert(value): the first writer of a key keeps it.
HashMap_or_insert(map, key, value) ==
    IF key \in DOMAIN map THEN map
    ELSE [k \in DOMAIN map \cup {key} |-> IF k = key THEN value ELSE map[k]]

RECURSIVE insert_aliases(_, _, _)
insert_aliases(inner, config, aliases) ==
    IF aliases = <<>> THEN inner
    ELSE insert_aliases(HashMap_or_insert(inner, Head(aliases), config),
                        config, Tail(aliases))

RECURSIVE from_iter_loop(_, _)
from_iter_loop(inner, iter) ==
    IF iter = <<>> THEN inner
    ELSE LET config == Head(iter)
             named == HashMap_or_insert(inner, config.directive, config)
         IN from_iter_loop(insert_aliases(named, config, config.aliases), Tail(iter))

CustomDirectiveMap_from_iter(iter) == from_iter_loop(HashMap_new, iter)
CustomDirectiveMap_get(self, key) == HashMap_get(self, key)

AdmonitionDefaults(title, collapsible, css_id_prefix) ==
    [title |-> title, collapsible |-> collapsible, css_id_prefix |-> css_id_prefix]

Overrides(book, builtin, custom) ==
    [book |-> book, builtin |-> builtin, custom |-> custom]

CssId_Verbatim(id) == [kind |-> "Verbatim", value |-> id]
CssId_Prefix(prefix) == [kind |-> "Prefix", value |-> prefix]

InstanceConfig(directive, title, id, additional_classnames, collapsible) ==
    [directive |-> directive, title |-> title, id |-> id,
     additional_classnames |-> additional_classnames, collapsible |-> collapsible]

(***************************************************************************)
(* Config strings.  An info string is a sequence of tokens, each a piece   *)
(* of text that the three grammars treat as a unit:                        *)
(*   word    a run of characters of [A-Za-z0-9_-], e.g. note               *)
(*   sp      one space                                                     *)
(*   comma   ,                                                             *)
(*   kv      a key assignment key=value, e.g. type="warning" or            *)
(*           collapsible=true; ok says that the value is a TOML value of   *)
(*           the type of the field (title=" is not); bare says that the    *)
(*           value is unquoted                                             *)
(*   dot     . followed by a classname (possibly none), e.g. .wide; ok     *)
(*           says that the classname is none or matches the v1 classname   *)
(*           pattern                                                       *)
(*   quoted  a text in double quotes; ok says that it is a JSON string     *)
(* Values and quoted texts hold no key assignment of their own.            *)
(***************************************************************************)
Token(k, key, v, ok) == [k |-> k, key |-> key, v |-> v, ok |-> ok]
Word(v) == Token("word", "", v, TRUE)
Sp == Token("sp", "", <<" ">>, TRUE)
Comma == Token("comma", "", <<",">>, TRUE)
KeyValue(key, v, ok) == Token("kv", key, v, ok)
Dot(v, ok) == Token("dot", "", v, ok)
Quoted(v, ok) == Token("quoted", "", v, ok)

Newline == Token("nl", "", <<"\n">>, TRUE)
IsSp(t) == t.k = "sp"
NotSp(t) == t.k # "sp"
IsWhitespaceToken(t) == t.k \in {"sp", "nl"}
IsKv(t) == t.k = "kv"
IsBareValued(t) == t.k = "kv" /\ t.key = "collapsible"

\* Index of the first token of s that is a space (0 when none).
FirstSp(s) ==
    IF \E i \in DOMAIN s : IsSp(s[i])
    THEN CHOOSE i \in DOMAIN s : IsSp(s[i]) /\ \A j \in 1..(i - 1) : ~IsSp(s[j])
    ELSE 0

\* str::trim on a token sequence.
RECURSIVE trim_tokens(_)
trim_tokens(s) ==
    IF s # <<>> /\ IsWhitespaceToken(Head(s)) THEN trim_tokens(Tail(s))
    ELSE IF s # <<>> /\ IsWhitespaceToken(s[Len(s)])
         THEN trim_tokens(SubSeq(s, 1, Len(s) - 1))
    ELSE s

\* str::split_once(' '): None, or the pair of what is before and after the
\* first space.
split_once_space(s) ==
    IF FirstSp(s) = 0 THEN None
    ELSE Some(<<SubSeq(s, 1, FirstSp(s) - 1), SubSeq(s, FirstSp(s) + 1, Len(s))>>)

(***************************************************************************)
(* config/mod.rs: is this the info string of an admonition block.          *)
(***************************************************************************)
ADMONISH_BLOCK_KEYWORD == <<Word(<<"a", "d", "m", "o", "n", "i", "s", "h">>)>>

admonition_config_string(info) ==
    IF info = ADMONISH_BLOCK_KEYWORD THEN Some(<<>>)
    ELSE LET split == split_once_space(info)
         IN IF is_some(split) /\ unwrap(split)[1] = ADMONISH_BLOCK_KEYWORD
            THEN Some(unwrap(split)[2])
            ELSE None

(***************************************************************************)
(* config/toml_wrangling.rs: the fields a user may give, and the directive *)
(* pattern.                                                                *)
(***************************************************************************)
\* The value of `key` among the key assignments of s, as an Option.
Field(s, key) ==
    IF \E i \in DOMAIN s : IsKv(s[i]) /\ s[i].key = key
    THEN Some((s[CHOOSE i \in DOMAIN s : IsKv(s[i]) /\ s[i].key = key]).v)
    ELSE None

\* serde: the struct read from well-formed key assignments; unknown keys are
\* dropped.
UserInput(s) ==
    [type |-> Field(s, "type"),
     title |-> Field(s, "title"),
     id |-> Field(s, "id"),
     class |-> Field(s, "class"),
     collapsible |-> IF is_some(Field(s, "collapsible"))
                     THEN Some(unwrap(Field(s, "collapsible")) = <<"t", "r", "u", "e">>)
                     ELSE None]

\* str::split(' ') without the empty pieces.
RECURSIVE split_nonempty(_, _)
split_nonempty(s, piece) ==
    IF s = <<>> THEN (IF piece = <<>> THEN <<>> ELSE <<piece>>)
    ELSE IF Head(s) = " "
         THEN (IF piece = <<>> THEN <<>> ELSE <<piece>>) \o split_nonempty(Tail(s), <<>>)
    ELSE split_nonempty(Tail(s), Append(piece, Head(s)))

classnames(self) ==
    IF is_some(self.class) THEN split_nonempty(unwrap(self.class), <<>>) ELSE <<>>

\* RX_DIRECTIVE ^[A-Za-z0-9_-]+$ on the text of a token sequence.
RX_DIRECTIVE_is_match(s) ==
    /\ Len(s) = 1
    /\ s[1].k = "word"
    /\ s[1].v # <<>>
    /\ \A i \in DOMAIN s[1].v :
          is_alphanumeric(s[1].v[i]) \/ s[1].v[i] \in {"_", "-"}

\* Key assignments with distinct keys and well-formed values.
PairsOk(kvs) ==
    /\ \A i \in DOMAIN kvs : kvs[i].ok
    /\ \A i, j \in DOMAIN kvs : i # j => kvs[i].key # kvs[j].key

format_toml_parsing_error(gen) == [gen |-> gen, message |-> "TOML parsing error"]
format_invalid_directive(gen, directive) ==
    [gen |-> gen, message |-> "not a valid directive or TOML key-value pair",
     directive |-> directive]

(***************************************************************************)
(* config/v3.rs: the remainder is the inside of an inline table.           *)
(***************************************************************************)
\* toml::from_str of `config = { pairs }`: key assignments separated by
\* commas, spaces anywhere between, no trailing comma.
InlineTableOk(pairs) ==
    LET t == SelectSeq(pairs, NotSp)
    IN \/ t = <<>>
       \/ /\ Len(t) % 2 = 1
          /\ \A i \in DOMAIN t : IF i % 2 = 1 THEN IsKv(t[i]) ELSE t[i].k = "comma"
          /\ PairsOk(SelectSeq(t, IsKv))

user_input_from_config_string(config) ==
    IF InlineTableOk(config) THEN Ok(UserInput(config))
    ELSE Err(format_toml_parsing_error(3))

\* The InstanceConfig built at the end of v2 and v3 from_config_string.
instance_config_of(config) ==
    InstanceConfig(unwrap_or(config.type, <<>>), config.title, config.id,
                   classnames(config), config.collapsible)

\* A mutant of v3_from_config_string: a type key of the table is kept, and
\* the bare directive only fills in for a missing one.
v3_from_config_string_table_type_wins(config) ==
    LET cs == trim_tokens(config)
        first == user_input_from_config_string(cs)
        split == split_once_space(cs)
        directive == IF is_some(split) THEN trim_tokens(unwrap(split)[1]) ELSE cs
        rest == IF is_some(split) THEN trim_tokens(unwrap(split)[2]) ELSE <<>>
        second == user_input_from_config_string(rest)
    IN IF first.ok THEN Ok(instance_config_of(first.v))
       ELSE IF ~RX_DIRECTIVE_is_match(directive)
            THEN Err(format_invalid_directive(3, directive))
       ELSE IF ~second.ok THEN second
       ELSE Ok(instance_config_of(
                [second.v EXCEPT !.type = or_else(second.v.type, Some(directive[1].v))]))

v3_from_config_string(config) ==
    LET cs == trim_tokens(config)
        first == user_input_from_config_string(cs)
        split == split_once_space(cs)
        directive == IF is_some(split) THEN trim_tokens(unwrap(split)[1]) ELSE cs
        rest == IF is_some(split) THEN trim_tokens(unwrap(split)[2]) ELSE <<>>
        second == user_input_from_config_string(rest)
    IN IF first.ok THEN Ok(instance_config_of(first.v))
       ELSE IF ~RX_DIRECTIVE_is_match(directive)
            THEN Err(format_invalid_directive(3, directive))
       ELSE IF ~second.ok THEN second
       ELSE Ok(instance_config_of([second.v EXCEPT !.type = Some(directive[1].v)]))

(***************************************************************************)
(* config/v2.rs: the remainder is key assignments without commas.          *)
(***************************************************************************)
\* RX_BARE_KEY_ASSIGNMENT replace_all: a line break before every key
\* assignment.
RECURSIVE bare_key_value_pairs_to_toml(_)
bare_key_value_pairs_to_toml(pairs) ==
    IF pairs = <<>> THEN <<>>
    ELSE (IF IsKv(Head(pairs)) THEN <<Newline, Head(pairs)>> ELSE <<Head(pairs)>>)
         \o bare_key_value_pairs_to_toml(Tail(pairs))

\* toml::from_str of a document: every line is blank or one key assignment.
DocumentOk(toml) ==
    LET t == SelectSeq(toml, NotSp)
    IN /\ \A i \in DOMAIN t : t[i].k \in {"kv", "nl"}
       /\ \A i \in DOMAIN t : (IsKv(t[i]) /\ i > 1) => t[i - 1].k = "nl"
       /\ PairsOk(SelectSeq(t, IsKv))

FirstNewline(s) ==
    IF \E i \in DOMAIN s : s[i].k = "nl"
    THEN CHOOSE i \in DOMAIN s : s[i].k = "nl" /\ \A j \in 1..(i - 1) : s[j].k # "nl"
    ELSE 0

v2_from_config_string(config) ==
    LET config_toml == trim_tokens(bare_key_value_pairs_to_toml(config))
        nl == FirstNewline(config_toml)
        directive == IF nl = 0 THEN config_toml
                     ELSE trim_tokens(SubSeq(config_toml, 1, nl - 1))
        rest == IF nl = 0 THEN <<>>
                ELSE SubSeq(config_toml, nl + 1, Len(config_toml))
    IN IF DocumentOk(config_toml) THEN Ok(instance_config_of(UserInput(config_toml)))
       ELSE IF ~RX_DIRECTIVE_is_match(directive)
            THEN Err(format_invalid_directive(2, directive))
       ELSE IF ~DocumentOk(rest) THEN Err(format_toml_parsing_error(2))
       ELSE Ok(instance_config_of(
                [UserInput(rest) EXCEPT !.type = Some(directive[1].v)]))

(***************************************************************************)
(* config/v1.rs: directive.classname "Title".                              *)
(***************************************************************************)
StartsWithQuote(t) == t.k = "quoted"
EndsWithQuote(t) == t.k = "quoted" \/ (t.k = "kv" /\ ~IsBareValued(t))
IsLowerWord(t) ==
    t.k = "word" /\ t.v # <<>> /\ \A i \in DOMAIN t.v : is_lower(t.v[i])
IsDot(t) == t.k = "dot"

\* ^([a-z]+)?(\.(classname)?)*( ".*")?$
RX_CONFIG_STRING_V1_is_match(s) ==
    LET sp == FirstSp(s)
        head == IF sp = 0 THEN s ELSE SubSeq(s, 1, sp - 1)
        title == IF sp = 0 THEN <<>> ELSE SubSeq(s, sp + 1, Len(s))
    IN /\ \A i \in DOMAIN head :
            \/ i = 1 /\ IsLowerWord(head[i])
            \/ IsDot(head[i]) /\ head[i].ok
       /\ sp # 0 => /\ title # <<>>
                    /\ StartsWithQuote(title[1])
                    /\ EndsWithQuote(title[Len(title)])

\* The classnames of the dotted part, without the empty ones.
RECURSIVE dotted_classnames(_)
dotted_classnames(s) ==
    IF s = <<>> THEN <<>>
    ELSE (IF IsDot(Head(s)) /\ Head(s).v # <<>> THEN <<Head(s).v>> ELSE <<>>)
         \o dotted_classnames(Tail(s))

v1_from_config_string(config) ==
    LET cs == trim_tokens(config)
        split == split_once_space(cs)
        head == IF is_some(split) THEN unwrap(split)[1] ELSE cs
        title == IF is_some(split) THEN Some(unwrap(split)[2]) ELSE None
        json_ok == Len(unwrap(title)) = 1 /\ unwrap(title)[1].k = "quoted"
                   /\ unwrap(title)[1].ok
    IN IF ~RX_CONFIG_STRING_V1_is_match(cs)
       THEN Err([gen |-> 1, message |-> "Invalid configuration string"])
       ELSE IF is_some(title) /\ ~json_ok
            THEN Err([gen |-> 1, message |-> "Error parsing JSON string"])
       ELSE Ok([directive |-> IF head # <<>> /\ head[1].k = "word" THEN head[1].v
                              ELSE <<>>,
                title |-> IF is_some(title) THEN Some(unwrap(title)[1].v) ELSE None,
                additional_classnames |-> dotted_classnames(head),
                collapsible |-> FALSE])

(***************************************************************************)
(* config/mod.rs: the dispatch over the three generations, newest first,   *)
(* as resolve.rs:62 calls it.  The sources hold the callers and the three  *)
(* parsers; the order of the attempts and the error kept are those of the  *)
(* specification, section 4.2.                                             *)
(* `attempts` lists the generations tried, in the order tried, each with   *)
(* what it returned.                                                       *)
(***************************************************************************)
Attempt(gen, res) == [gen |-> gen, res |-> res]

\* The InstanceConfig of a v1 result: v1 knows neither id nor collapsible.
instance_config_of_v1(info_raw) ==
    InstanceConfig(info_raw.directive, info_raw.title, None,
                   info_raw.additional_classnames, None)

\* A mutant of InstanceConfig_from_info_string: when all generations fail, the error of the
\* generation tried last is returned.
InstanceConfig_from_info_string_last_error(info) ==
    LET config_string == admonition_config_string(info)
        cs == unwrap(config_string)
        r3 == v3_from_config_string(cs)
        r2 == v2_from_config_string(cs)
        r1 == v1_from_config_string(cs)
    IN IF ~is_some(config_string) THEN [result |-> None, attempts |-> <<>>]
       ELSE IF r3.ok THEN [result |-> Some(r3), attempts |-> <<Attempt(3, r3)>>]
       ELSE IF r2.ok
            THEN [result |-> Some(r2), attempts |-> <<Attempt(3, r3), Attempt(2, r2)>>]
       ELSE [result |-> Some(IF r1.ok THEN Ok(instance_config_of_v1(r1.v))
                             ELSE Err(r1.e)),
             attempts |-> <<Attempt(3, r3), Attempt(2, r2), Attempt(1, r1)>>]

InstanceConfig_from_info_string(info) ==
    LET config_string == admonition_config_string(info)
        cs == unwrap(config_string)
        r3 == v3_from_config_string(cs)
        r2 == v2_from_config_string(cs)
        r1 == v1_from_config_string(cs)
    IN IF ~is_some(config_string) THEN [result |-> None, attempts |-> <<>>]
       ELSE IF r3.ok THEN [result |-> Some(r3), attempts |-> <<Attempt(3, r3)>>]
       ELSE IF r2.ok
            THEN [result |-> Some(r2), attempts |-> <<Attempt(3, r3), Attempt(2, r2)>>]
       ELSE [result |-> Some(IF r1.ok THEN Ok(instance_config_of_v1(r1.v))
                             ELSE Err(r3.e)),
             attempts |-> <<Attempt(3, r3), Attempt(2, r2), Attempt(1, r1)>>]

(***************************************************************************)
(* resolve.rs: Directive, the lookup of a raw token, and                   *)
(* AdmonitionMeta::resolve.                                                *)
(***************************************************************************)
Directive_Builtin(builtin) == [tag |-> "Builtin", builtin |-> builtin]
Directive_Custom(custom) == [tag |-> "Custom", custom |-> custom]

Directive_fmt(self) ==
    IF self.tag = "Builtin" THEN BuiltinDirective_fmt(self.builtin)
    ELSE self.custom.directive

Directive_from_str(custom_directive_map, string) ==
    LET builtin == BuiltinDirective_from_str(string)
        config == CustomDirectiveMap_get(custom_directive_map, string)
    IN IF builtin.ok THEN Ok(Directive_Builtin(builtin.v))
       ELSE IF is_some(config) THEN Ok(Directive_Custom(unwrap(config)))
       ELSE Err("unit")

\* A mutant of Directive_title: a builtin is titled from its canonical name.
Directive_title_canonical_name(self, raw_directive) ==
    IF self.tag = "Builtin"
    THEN format_builtin_directive_title(BuiltinDirective_fmt(self.builtin))
    ELSE unwrap_or(self.custom.title, uppercase_first(raw_directive))

Directive_title(self, raw_directive) ==
    IF self.tag = "Builtin" THEN format_builtin_directive_title(raw_directive)
    ELSE unwrap_or(self.custom.title, uppercase_first(raw_directive))

\* A mutant of resolve_title: the book default is taken before the instance title.
resolve_title_book_first(title, ovr) == or_else(ovr.book.title, title)

\* resolve.rs:78
resolve_title(title, ovr) == or_else(title, ovr.book.title)

\* A mutant of resolve_collapsible: the directive's own default is not looked at.
resolve_collapsible_no_directive_default(directive, collapsible, ovr) ==
    unwrap_or(collapsible, ovr.book.collapsible)

\* resolve.rs:82-98
resolve_collapsible(directive, collapsible, ovr) ==
    IF directive.ok /\ directive.v.tag = "Builtin" THEN
        unwrap_or(collapsible,
            unwrap_or(
                IF directive.v.builtin \in DOMAIN ovr.builtin
                THEN ovr.builtin[directive.v.builtin].collapsible
                ELSE None,
                ovr.book.collapsible))
    ELSE IF directive.ok THEN
        unwrap_or(collapsible,
            unwrap_or(directive.v.custom.collapsible, ovr.book.collapsible))
    ELSE unwrap_or(collapsible, ovr.book.collapsible)

\* resolve.rs:101-106, the pair (directive, title)
resolve_directive_title(directive, title, raw_directive) ==
    CASE directive.ok /\ ~is_some(title) ->
            <<Directive_fmt(directive.v), Directive_title(directive.v, raw_directive)>>
      [] ~directive.ok /\ ~is_some(title) ->
            <<BuiltinDirective_fmt("Note"), <<"N", "o", "t", "e">>>>
      [] directive.ok /\ is_some(title) ->
            <<Directive_fmt(directive.v), unwrap(title)>>
      [] ~directive.ok /\ is_some(title) ->
            <<BuiltinDirective_fmt("Note"), unwrap(title)>>

DEFAULT_CSS_ID_PREFIX == <<"a", "d", "m", "o", "n", "i", "t", "i", "o", "n", "-">>

\* A mutant of resolve_css_id: a configured book prefix wins over an explicit id.
resolve_css_id_prefix_first(id, ovr) ==
    IF is_some(ovr.book.css_id_prefix) THEN CssId_Prefix(unwrap(ovr.book.css_id_prefix))
    ELSE IF is_some(id) THEN CssId_Verbatim(unwrap(id))
    ELSE CssId_Prefix(DEFAULT_CSS_ID_PREFIX)

\* resolve.rs:108-119
resolve_css_id(id, ovr) ==
    IF is_some(id) THEN CssId_Verbatim(unwrap(id))
    ELSE CssId_Prefix(unwrap_or(ovr.book.css_id_prefix, DEFAULT_CSS_ID_PREFIX))

resolve(raw_config, ovr) ==
    LET title == resolve_title(raw_config.title, ovr)
        directive == Directive_from_str(ovr.custom, raw_config.directive)
        collapsible == resolve_collapsible(directive, raw_config.collapsible, ovr)
        pair == resolve_directive_title(directive, title, raw_config.directive)
    IN [directive |-> pair[1],
        title |-> pair[2],
        css_id |-> resolve_css_id(raw_config.id, ovr),
        additional_classnames |-> raw_config.additional_classnames,
        collapsible |-> collapsible]

(***************************************************************************)
(* mdbook::utils::unique_id_from_content as called from render.rs: the     *)
(* slug of the content, and a per-slug counter that suffixes every         *)
(* occurrence after the first.  Titles here hold no HTML tag or entity,    *)
(* so the tag and entity stripping of the slug has nothing to strip.       *)
(***************************************************************************)
RECURSIVE normalize_id(_)
normalize_id(content) ==
    IF content = <<>> THEN <<>>
    ELSE LET ch == Head(content)
         IN (IF is_alphanumeric(ch) \/ ch = "_" \/ ch = "-"
             THEN <<to_ascii_lowercase(ch)>>
             ELSE IF is_whitespace(ch) THEN <<"-">> ELSE <<>>)
            \o normalize_id(Tail(content))

RECURSIVE trim_start_matches(_, _)
trim_start_matches(s, c) ==
    IF s # <<>> /\ Head(s) = c THEN trim_start_matches(Tail(s), c) ELSE s

id_from_content(content) == normalize_id(trim(trim_start_matches(trim(content), "#")))

\* The id returned, and the counter map left behind.
unique_id_from_content(content, counter) ==
    LET id == id_from_content(content)
        id_count == IF id \in DOMAIN counter THEN counter[id] ELSE 0
    IN [unique_id |-> IF id_count = 0 THEN id
                      ELSE id \o <<"-">> \o usize_to_string(id_count),
        id_counter |-> [k \in DOMAIN counter \cup {id} |->
                            IF k = id THEN id_count + 1 ELSE counter[k]]]

(***************************************************************************)
(* render.rs: Admonition and the anchor id of Admonition::html.            *)
(***************************************************************************)
ANCHOR_DEFAULT_ID_PREFIX == <<"a", "d", "m", "o", "n", "i", "t", "i", "o", "n", "-">>
ANCHOR_ID_DEFAULT == <<"d", "e", "f", "a", "u", "l", "t">>

Admonition_new(info, content, indent) ==
    [directive |-> info.directive,
     title |-> info.title,
     content |-> content,
     css_id |-> Some(info.css_id),
     additional_classnames |-> info.additional_classnames,
     collapsible |-> info.collapsible,
     indent |-> indent]

\* A mutant of html_anchor: an explicit id also takes a slot of the counter.
html_anchor_counts_verbatim(self, counter) ==
    LET css_id_type == unwrap_or(self.css_id, CssId_Prefix(ANCHOR_DEFAULT_ID_PREFIX))
        unique == unique_id_from_content(
                      IF self.title # <<>> THEN self.title ELSE ANCHOR_ID_DEFAULT,
                      counter)
    IN [anchor_id |-> IF css_id_type.kind = "Verbatim" THEN css_id_type.value
                      ELSE css_id_type.value \o unique.unique_id,
        id_counter |-> unique.id_counter]

\* render.rs:62-80: the anchor id and the counter after the call.
html_anchor(self, counter) ==
    LET css_id_type == unwrap_or(self.css_id, CssId_Prefix(ANCHOR_DEFAULT_ID_PREFIX))
        unique == unique_id_from_content(
                      IF self.title # <<>> THEN self.title ELSE ANCHOR_ID_DEFAULT,
                      counter)
    IN IF css_id_type.kind = "Verbatim"
       THEN [anchor_id |-> css_id_type.value, id_counter |-> counter]
       ELSE [anchor_id |-> css_id_type.value \o unique.unique_id,
             id_counter |-> unique.id_counter]

(***************************************************************************)
(* The book run: one chapter after the other, and within a chapter one     *)
(* admonition block after the other (lib.rs preprocess, called per chapter *)
(* by preprocessor.rs Admonish::run).                                      *)
(***************************************************************************)
\* Titles a block of the run may carry: upper case, a space, punctuation,
\* a trailing "-1", and the empty title.
DocTitles ==
    { <<>>,
      <<"M", "y">>,
      <<"m", "y">>,
      <<"m", "y", "-", "1">>,
      <<"M", "y", " ", "1">>,
      <<"m", "y", "!">> }
DocIds == { <<"m", "y">> }

DocBlocks ==
    { InstanceConfig(<<"n", "o", "t", "e">>, title, id, <<>>, None) :
        title \in {None} \cup { Some(t) : t \in DocTitles },
        id \in {None} \cup { Some(i) : i \in DocIds } }

DocOverrides ==
    { Overrides(AdmonitionDefaults(title, FALSE, prefix), HashMap_new, HashMap_new) :
        title \in {None, Some(<<"m", "y">>)},
        prefix \in {None, Some(<<"p", "-">>)} }

Init ==
    /\ book_custom = <<>>
    /\ overrides \in DocOverrides
    /\ chapter = 0
    /\ id_counter = HashMap_new
    /\ rendered = <<>>
    /\ info_string = Idle
    /\ parsed = Idle
    /\ raw = Idle
    /\ meta = Idle
    /\ RegistryIdle
    /\ ExtractIdle
    /\ DocumentIdle
    /\ RunIdle

\* A mutant of preprocess_begin: the counter of the previous chapter is kept.
preprocess_begin_shared_counter ==
    /\ chapter < MaxChapters
    /\ chapter' = chapter + 1
    /\ rendered' = <<>>
    /\ UNCHANGED <<id_counter, book_custom, overrides, info_string, parsed, raw, meta, registry_vars, extract_vars, document_vars, run_vars>>

\* lib.rs:297-305: preprocess starts on the next chapter with a fresh id
\* counter and no recorded block.
preprocess_begin ==
    /\ chapter < MaxChapters
    /\ chapter' = chapter + 1
    /\ id_counter' = HashMap_new
    /\ rendered' = <<>>
    /\ UNCHANGED <<book_custom, overrides, info_string, parsed, raw, meta, registry_vars, extract_vars, document_vars, run_vars>>

\* One admonition block of the chapter whose config parsed to `block`:
\* resolved, built and rendered; the anchor id is recorded with the block.
preprocess_block(block) ==
    /\ chapter >= 1
    /\ Len(rendered) < MaxBlocks
    /\ LET admonition == Admonition_new(resolve(block, overrides), <<>>, 0)
           anchor == html_anchor(admonition, id_counter)
       IN /\ id_counter' = anchor.id_counter
          /\ rendered' = Append(rendered,
                 [admonition |-> admonition, anchor_id |-> anchor.anchor_id])
    /\ UNCHANGED <<book_custom, overrides, chapter, info_string, parsed, raw, meta, registry_vars, extract_vars, document_vars, run_vars>>

Next ==
    \/ preprocess_begin
    \/ \E block \in DocBlocks : preprocess_block(block)

Spec == Init /\ [][Next]_vars

(***************************************************************************)
(* Anchor ids within a chapter.                                            *)
(***************************************************************************)
IsPrefixBlock(b) == unwrap(b.admonition.css_id).kind = "Prefix"
CssValueOf(b) == unwrap(b.admonition.css_id).value
SlugOf(b) ==
    id_from_content(IF b.admonition.title # <<>> THEN b.admonition.title
                    ELSE ANCHOR_ID_DEFAULT)
\* How many Prefix blocks with the slug of block i come before it in the chapter.
EarlierSameSlug(i) ==
    Cardinality({ j \in 1..(i - 1) :
        IsPrefixBlock(rendered[j]) /\ SlugOf(rendered[j]) = SlugOf(rendered[i]) })

\* C1: within a chapter, the k-th Prefix block (k = 0, 1, ...) of a title slug
\* gets prefix+slug for k = 0 and prefix+slug+"-"+k for k >= 1, counting only
\* the blocks of that chapter.
C1_SuffixIsOccurrenceIndex ==
    \A i \in DOMAIN rendered :
        IsPrefixBlock(rendered[i]) =>
            rendered[i].anchor_id =
                CssValueOf(rendered[i]) \o SlugOf(rendered[i]) \o
                (IF EarlierSameSlug(i) = 0 THEN <<>>
                 ELSE <<"-">> \o usize_to_string(EarlierSameSlug(i)))

\* Witness of C1: in the second chapter of the run, the second block of a slug
\* got the suffix "-1".
C1_Witness ==
    /\ chapter = 2
    /\ \E i \in DOMAIN rendered :
        /\ IsPrefixBlock(rendered[i])
        /\ EarlierSameSlug(i) = 1
        /\ rendered[i].anchor_id =
               CssValueOf(rendered[i]) \o SlugOf(rendered[i]) \o <<"-", "1">>

\* C2: the anchor ids generated from Prefix css_ids with the same prefix are
\* pairwise distinct within a chapter.
C2_PrefixIdsDistinct ==
    \A i, j \in DOMAIN rendered :
        (/\ i # j
         /\ IsPrefixBlock(rendered[i]) /\ IsPrefixBlock(rendered[j])
         /\ CssValueOf(rendered[i]) = CssValueOf(rendered[j]))
        => rendered[i].anchor_id # rendered[j].anchor_id

\* C3: a block with an explicit id is rendered with exactly that id, and
\* rendering it leaves the id counter of the chapter as it was.
C3_VerbatimBypassesCounter ==
    [][ (/\ Len(rendered') = Len(rendered) + 1
         /\ ~IsPrefixBlock(rendered'[Len(rendered')]))
        => (/\ id_counter' = id_counter
            /\ rendered'[Len(rendered')].anchor_id =
                   CssValueOf(rendered'[Len(rendered')])) ]_vars

\* Witness of C3: an explicit-id block, then a Prefix block whose title has the
\* slug of the explicit-id block's title, rendered without a suffix.
C3_Witness ==
    \E i, j \in DOMAIN rendered :
        /\ i < j
        /\ ~IsPrefixBlock(rendered[i])
        /\ IsPrefixBlock(rendered[j])
        /\ SlugOf(rendered[i]) = SlugOf(rendered[j])
        /\ EarlierSameSlug(j) = 0
        /\ rendered[j].anchor_id = CssValueOf(rendered[j]) \o SlugOf(rendered[j])

(***************************************************************************)
(* Meta resolution on its own: a book configuration, and one instance      *)
(* config resolved against it.                                             *)
(***************************************************************************)
S_frog == <<"f", "r", "o", "g">>
S_toad == <<"t", "o", "a", "d">>
S_newt == <<"n", "e", "w", "t">>
S_pond == <<"p", "o", "n", "d">>
S_note == <<"n", "o", "t", "e">>
S_tip == <<"t", "i", "p">>
S_tldr == <<"t", "l", "d", "r">>
S_zz == <<"z", "z">>
S_faq == <<"f", "a", "q">>
S_todo == <<"t", "o", "d", "o">>

\* Custom directives a book may declare: plain ones, one named like a builtin,
\* aliases that collide with another directive's alias, with another
\* directive's name, with a builtin name, and blank aliases.
CustomCandidates ==
    { CustomDirective(S_frog, <<S_toad>>, Some(<<"R">>), Some(TRUE)),
      CustomDirective(S_newt, <<S_toad, S_tip>>, None, None),
      CustomDirective(S_note, <<>>, Some(<<"C">>), Some(TRUE)),
      CustomDirective(S_toad, <<S_frog>>, None, Some(FALSE)),
      CustomDirective(S_pond, <<<<>>, <<" ">>>>, None, Some(TRUE)) }

\* The book's custom table is a map keyed by canonical name: every sequence of
\* candidates with distinct names, in any iteration order.
RECURSIVE CustomLists(_)
CustomLists(n) ==
    IF n = 0 THEN { <<>> }
    ELSE LET shorter == CustomLists(n - 1)
         IN shorter \cup
            { Append(l, c) : l \in { x \in shorter : Len(x) = n - 1 },
                             c \in CustomCandidates } 

DistinctNames(l) ==
    \A i, j \in DOMAIN l : i # j => l[i].directive # l[j].directive

BookDefaults ==
    { AdmonitionDefaults(title, collapsible, prefix) :
        title \in {None, Some(<<>>), Some(<<"B">>)},
        collapsible \in BOOLEAN,
        prefix \in {None, Some(<<"p", "-">>)} }

BuiltinDirectiveConfig(collapsible) == [collapsible |-> collapsible]

BuiltinOverrides ==
    { HashMap_new,
      [k \in {"Note"} |-> BuiltinDirectiveConfig(Some(TRUE))],
      [k \in {"Note"} |-> BuiltinDirectiveConfig(Some(FALSE))],
      [k \in {"Abstract"} |-> BuiltinDirectiveConfig(Some(TRUE))],
      [k \in {"Tip"} |-> BuiltinDirectiveConfig(None)] }

ResolveTokens ==
    { <<>>, <<" ">>, S_note, S_tldr, S_faq, S_todo, S_tip, S_frog, S_toad, S_newt,
      S_zz }

ResolveInputs ==
    { InstanceConfig(directive, title, id, <<>>, collapsible) :
        directive \in ResolveTokens,
        title \in {None, Some(<<>>), Some(<<"I">>)},
        id \in {None, Some(<<"x">>)},
        collapsible \in {None, Some(TRUE), Some(FALSE)} }

InitResolve ==
    /\ book_custom \in { l \in CustomLists(MaxCustom) : DistinctNames(l) }
    /\ \E book \in BookDefaults, builtin \in BuiltinOverrides :
          overrides = Overrides(book, builtin, CustomDirectiveMap_from_iter(book_custom))
    /\ chapter = 0
    /\ id_counter = HashMap_new
    /\ rendered = <<>>
    /\ info_string = Idle
    /\ parsed = Idle
    /\ raw = Idle
    /\ meta = Idle
    /\ RegistryIdle
    /\ ExtractIdle
    /\ DocumentIdle
    /\ RunIdle

\* AdmonitionMeta::resolve applied to one instance config; the lookup of the
\* raw token (the local `directive` of resolve) is kept beside the result.
resolve_instance(instance) ==
    /\ meta = Idle
    /\ raw' = instance
    /\ meta' = [info |-> resolve(instance, overrides),
                lookup |-> Directive_from_str(overrides.custom, instance.directive)]
    /\ UNCHANGED <<book_custom, overrides, chapter, id_counter, rendered,
                   info_string, parsed, registry_vars, extract_vars, document_vars, run_vars>>

NextResolve == \E instance \in ResolveInputs : resolve_instance(instance)

SpecResolve == InitResolve /\ [][NextResolve]_vars

(***************************************************************************)
(* Properties of meta resolution.                                          *)
(***************************************************************************)
Resolved == meta # Idle
IsBuiltinToken(token) == BuiltinDirective_from_str(token).ok
\* The token is the canonical name or an alias of a declared custom directive.
IsCustomToken(token) ==
    \E i \in DOMAIN book_custom :
        \/ book_custom[i].directive = token
        \/ token \in Range(book_custom[i].aliases)
InRegistry(token) == IsBuiltinToken(token) \/ IsCustomToken(token)
IsBlank(token) == trim(token) = <<>>

\* C6: a raw directive token that is empty or all-whitespace, or that is not
\* in the registry, resolves to directive "note", and to title "Note" when
\* neither the instance nor the book gives a title.
C6_BlankOrUnknownIsNote ==
    (Resolved /\ (IsBlank(raw.directive) \/ ~InRegistry(raw.directive)))
    => /\ meta.info.directive = <<"n", "o", "t", "e">>
       /\ (~is_some(raw.title) /\ ~is_some(overrides.book.title))
              => meta.info.title = <<"N", "o", "t", "e">>

\* The title of a found kind for a raw token (spec 4.3).
KindTitle(kind, token) ==
    IF kind.tag = "Custom" /\ is_some(kind.custom.title) THEN unwrap(kind.custom.title)
    ELSE IF kind.tag = "Builtin" /\ token = <<"t", "l", "d", "r">>
         THEN <<"T", "L", ";", "D", "R">>
    ELSE IF kind.tag = "Builtin" /\ token = <<"f", "a", "q">> THEN <<"F", "A", "Q">>
    ELSE IF token = <<>> THEN <<>>
    ELSE <<to_uppercase(token[1])>> \o SubSeq(token, 2, Len(token))

\* C7: the resolved title is the instance title if present (the empty string
\* included), else the book default title if present, else the title of the
\* resolved kind, else "Note" for an unknown directive.
C7_TitlePrecedence ==
    Resolved =>
        meta.info.title =
            IF is_some(raw.title) THEN unwrap(raw.title)
            ELSE IF is_some(overrides.book.title) THEN unwrap(overrides.book.title)
            ELSE IF meta.lookup.ok THEN KindTitle(meta.lookup.v, raw.directive)
            ELSE <<"N", "o", "t", "e">>

\* Witness of C7: an instance title "" stays empty although the book has a
\* default title and the directive is a known kind.
C7_Witness ==
    /\ Resolved
    /\ raw.title = Some(<<>>)
    /\ overrides.book.title = Some(<<"B">>)
    /\ meta.lookup.ok
    /\ meta.info.title = <<>>

\* The collapsible default configured for the matched directive, if any.
DirectiveDefaultCollapsible(lookup) ==
    IF ~lookup.ok THEN None
    ELSE IF lookup.v.tag = "Custom" THEN lookup.v.custom.collapsible
    ELSE IF lookup.v.builtin \in DOMAIN overrides.builtin
         THEN overrides.builtin[lookup.v.builtin].collapsible
    ELSE None

\* C8: the resolved collapsible flag is the instance flag if present, else the
\* matched directive's configured default if present, else the book default.
C8_CollapsiblePrecedence ==
    Resolved =>
        meta.info.collapsible =
            IF is_some(raw.collapsible) THEN unwrap(raw.collapsible)
            ELSE IF is_some(DirectiveDefaultCollapsible(meta.lookup))
                 THEN unwrap(DirectiveDefaultCollapsible(meta.lookup))
            ELSE overrides.book.collapsible

\* Witness of C8: the alias "tldr" takes the book's override for the builtin
\* kind abstract, against the book-wide default.
C8_Witness ==
    /\ Resolved
    /\ raw.directive = <<"t", "l", "d", "r">>
    /\ raw.collapsible = None
    /\ "Abstract" \in DOMAIN overrides.builtin
    /\ overrides.book.collapsible = FALSE
    /\ meta.info.collapsible = TRUE

C10_CustomBeforeBuiltin ==
    (Resolved /\ IsCustomToken(raw.directive) /\ IsBuiltinToken(raw.directive))
    => (meta.lookup.ok /\ meta.lookup.v.tag = "Custom")

NoTitleGiven == ~is_some(raw.title) /\ ~is_some(overrides.book.title)
\* The token with its first character in upper case.
FirstUpper(token) ==
    IF token = <<>> THEN <<>> ELSE <<to_uppercase(token[1])>> \o Tail(token)

\* C11: a token that is an alias of a declared custom directive D resolves
\* to D's canonical name, with D's collapsible default when the instance
\* gives none and D's title when neither the instance nor the book gives one.
C11_AliasResolvesToItsDirective ==
    Resolved =>
        \A i \in DOMAIN book_custom :
            raw.directive \in Range(book_custom[i].aliases) =>
                /\ meta.info.directive = book_custom[i].directive
                /\ (~is_some(raw.collapsible) /\ is_some(book_custom[i].collapsible))
                       => meta.info.collapsible = unwrap(book_custom[i].collapsible)
                /\ (NoTitleGiven /\ is_some(book_custom[i].title))
                       => meta.info.title = unwrap(book_custom[i].title)

\* C29: in the lookup map built from the declared custom directives, the
\* canonical name of every directive is a key whose value is that directive,
\* whatever the directives declared before it list as aliases.
C29_CanonicalNameResolvesToItself ==
    \A i \in DOMAIN book_custom :
        CustomDirectiveMap_get(overrides.custom, book_custom[i].directive)
            = Some(book_custom[i])

\* The collapsible default the book gives the builtin note: the override
\* configured for note if there is one, else the book-wide default.
NoteCollapsible ==
    IF "Note" \in DOMAIN overrides.builtin
       /\ is_some(overrides.builtin["Note"].collapsible)
    THEN unwrap(overrides.builtin["Note"].collapsible)
    ELSE overrides.book.collapsible

\* C30: an instance without a collapsible flag that resolves to the builtin
\* directive "note", by a token of note or by the fallback from an empty or
\* unknown token, has the collapsible value the book gives note: the override
\* configured for note if there is one, else the book-wide default.
C30_NoteCollapsibleAlsoByFallback ==
    (/\ Resolved
     /\ meta.info.directive = <<"n", "o", "t", "e">>
     /\ ~(meta.lookup.ok /\ meta.lookup.v.tag = "Custom")
     /\ ~is_some(raw.collapsible))
    => meta.info.collapsible = NoteCollapsible

\* C12: a token looked up as a builtin kind, with no instance or book title,
\* is titled "TL;DR" for tldr, "FAQ" for faq, and otherwise with the token as
\* typed, first character in upper case.
C12_BuiltinTitleFromRawToken ==
    (Resolved /\ meta.lookup.ok /\ meta.lookup.v.tag = "Builtin" /\ NoTitleGiven) =>
        meta.info.title =
            IF raw.directive = S_tldr THEN <<"T", "L", ";", "D", "R">>
            ELSE IF raw.directive = S_faq THEN <<"F", "A", "Q">>
            ELSE FirstUpper(raw.directive)

\* Witness of C12: the alias todo of the kind info is titled "Todo".
C12_Witness ==
    /\ Resolved
    /\ NoTitleGiven
    /\ raw.directive = S_todo
    /\ meta.info.directive = <<"i", "n", "f", "o">>
    /\ meta.info.title = <<"T", "o", "d", "o">>

\* The canonical name of the builtin kind of a builtin token.
CanonicalName(token) == BuiltinDirective_fmt(BuiltinDirective_from_str(token).v)

\* C13 as stated: every builtin token other than tldr and faq, with no
\* instance or book title, is titled with the canonical name of its kind,
\* first letter in upper case.
C13_TitleFromCanonicalName ==
    (Resolved /\ IsBuiltinToken(raw.directive) /\ raw.directive \notin {S_tldr, S_faq}
       /\ NoTitleGiven)
    => meta.info.title = FirstUpper(CanonicalName(raw.directive))

\* C13 amended: a builtin token that is the canonical name of its kind, with
\* no instance or book title, is titled with that canonical name, first
\* letter in upper case.
C13_CanonicalTokenTitle ==
    (Resolved /\ IsBuiltinToken(raw.directive)
       /\ raw.directive = CanonicalName(raw.directive) /\ NoTitleGiven)
    => meta.info.title = FirstUpper(CanonicalName(raw.directive))

\* Witness of C13 amended: the canonical token tip is titled "Tip".
C13_Witness ==
    /\ Resolved
    /\ NoTitleGiven
    /\ raw.directive = S_tip
    /\ meta.info.directive = S_tip
    /\ meta.info.title = <<"T", "i", "p">>

(***************************************************************************)
(* Parsing the info string of one fenced block.                            *)
(***************************************************************************)
W_note == <<"n", "o", "t", "e">>
W_Frog == <<"F", "r", "o", "g">>
W_warning == <<"w", "a", "r", "n", "i", "n", "g">>
W_rust == <<"r", "u", "s", "t">>
W_true == <<"t", "r", "u", "e">>
W_cls == <<"c", "l", "s">>
W_T == <<"T">>
W_badescape == <<"\\", "q">>

\* The tokens config strings are made of.  The two ill-formed ones hold an
\* escape neither TOML nor JSON knows.
ConfigTokens ==
    << Word(W_note), Word(W_Frog), Sp, Comma,
       KeyValue("type", W_warning, TRUE), KeyValue("title", W_T, TRUE),
       KeyValue("title", W_badescape, FALSE), KeyValue("collapsible", W_true, TRUE),
       Dot(W_cls, TRUE), Quoted(W_T, TRUE), Quoted(W_badescape, FALSE) >>

\* Neighbouring tokens stay apart when written out as text: a word or a
\* classname does not run into a following word or key, and a bare value
\* ends at a space, a comma or the end.
StaysApart(t, next) ==
    /\ t.k \in {"word", "dot"} => next.k \notin {"word", "kv"}
    /\ IsBareValued(t) => next.k \in {"sp", "comma"}

\* Config strings of n tokens, each token given by its place in ConfigTokens.
RECURSIVE TokenSeqs(_)
TokenSeqs(n) ==
    IF n = 0 THEN {<<>>}
    ELSE { Append(p[1], p[2]) : p \in
             { q \in TokenSeqs(n - 1) \X DOMAIN ConfigTokens :
                 q[1] = <<>> \/ StaysApart(ConfigTokens[q[1][Len(q[1])]],
                                           ConfigTokens[q[2]]) } }

ConfigStrings == UNION { TokenSeqs(n) : n \in 0..MaxTokens }

TokensOf(places) == [i \in DOMAIN places |-> ConfigTokens[places[i]]]

\* Info strings that are not `admonish` followed by a space and a config
\* string.
OtherInfoStrings ==
    { ADMONISH_BLOCK_KEYWORD, <<>>, <<Word(W_rust)>>,
      <<Word(W_rust), Sp>> \o ADMONISH_BLOCK_KEYWORD,
      ADMONISH_BLOCK_KEYWORD \o <<Comma, Word(W_note)>> }

InitParse ==
    /\ book_custom = <<>>
    /\ overrides = Overrides(AdmonitionDefaults(None, FALSE, None),
                             BuiltinDirectiveConfig(None), HashMap_new)
    /\ chapter = 0
    /\ id_counter = HashMap_new
    /\ rendered = <<>>
    /\ info_string = Idle
    /\ parsed = Idle
    /\ raw = Idle
    /\ meta = Idle
    /\ RegistryIdle
    /\ ExtractIdle
    /\ DocumentIdle
    /\ RunIdle

\* resolve.rs:58-65: the info string of a fenced block is parsed.
parse_info_string(info) ==
    /\ info_string' = info
    /\ parsed' = InstanceConfig_from_info_string(info)
    /\ UNCHANGED <<book_custom, overrides, chapter, id_counter, rendered, raw, meta, registry_vars, extract_vars, document_vars, run_vars>>

NextParse ==
    /\ parsed = Idle
    /\ \/ \E config \in ConfigStrings :
             parse_info_string(ADMONISH_BLOCK_KEYWORD \o <<Sp>> \o TokensOf(config))
       \/ \E info \in OtherInfoStrings : parse_info_string(info)

SpecParse == InitParse /\ [][NextParse]_vars

Parsed == parsed # Idle
ConfigString == unwrap(admonition_config_string(info_string))

BareDirectiveBeforeTypeKey ==
    LET cs == trim_tokens(ConfigString)
    IN /\ Len(cs) >= 2
       /\ cs[1].k = "word"
       /\ \E i \in 2..Len(cs) : IsKv(cs[i]) /\ cs[i].key = "type"

ParsedByGeneration(gen) ==
    /\ Parsed
    /\ is_some(parsed.result)
    /\ unwrap(parsed.result).ok
    /\ parsed.attempts[Len(parsed.attempts)].gen = gen

\* C5: when Generation 3 or Generation 2 parses a config string in which a
\* bare directive token precedes a table that has a type key of its own,
\* the directive of the parsed config is the bare token, never the value of
\* the type key.
C5_BareDirectiveWins ==
    ((ParsedByGeneration(3) \/ ParsedByGeneration(2)) /\ BareDirectiveBeforeTypeKey) =>
        unwrap(parsed.result).v.directive = trim_tokens(ConfigString)[1].v

\* C5 witness: Generation 3 parsed a bare directive followed by a table
\* whose type key names another directive.
C5_Witness ==
    /\ ParsedByGeneration(3)
    /\ BareDirectiveBeforeTypeKey
    /\ unwrap(parsed.result).v.directive = W_note
    /\ \E i \in DOMAIN ConfigString :
          IsKv(ConfigString[i]) /\ ConfigString[i].key = "type"
          /\ ConfigString[i].v = W_warning

(***************************************************************************)
(* The directive registry of a book: book_config.rs merges the deprecated  *)
(* [[custom]] declarations into the [directive.custom.<name>] ones, and    *)
(* flavours.rs build_flavour_map validates the result and adds the         *)
(* builtins.                                                               *)
(***************************************************************************)
is_valid_directive(directive) ==
    /\ directive # <<>>
    /\ \A i \in DOMAIN directive :
          is_alphanumeric(directive[i]) \/ directive[i] \in {"_", "-"}

Flavour(directive, title) == [directive |-> directive, title |-> title]

BUILTIN_FLAVOURS ==
    << Flavour(<<"n", "o", "t", "e">>, None),
       Flavour(<<"a", "b", "s", "t", "r", "a", "c", "t">>, None),
       Flavour(<<"s", "u", "m", "m", "a", "r", "y">>, None),
       Flavour(<<"t", "l", "d", "r">>, Some(<<"T", "L", ";", "D", "R">>)),
       Flavour(<<"i", "n", "f", "o">>, None),
       Flavour(<<"t", "o", "d", "o">>, Some(<<"T", "O", "D", "O">>)),
       Flavour(<<"t", "i", "p">>, None),
       Flavour(<<"h", "i", "n", "t">>, None),
       Flavour(<<"i", "m", "p", "o", "r", "t", "a", "n", "t">>, None),
       Flavour(<<"s", "u", "c", "c", "e", "s", "s">>, None),
       Flavour(<<"c", "h", "e", "c", "k">>, None),
       Flavour(<<"d", "o", "n", "e">>, None),
       Flavour(<<"q", "u", "e", "s", "t", "i", "o", "n">>, None),
       Flavour(<<"h", "e", "l", "p">>, None),
       Flavour(<<"f", "a", "q">>, Some(<<"F", "A", "Q">>)),
       Flavour(<<"w", "a", "r", "n", "i", "n", "g">>, None),
       Flavour(<<"c", "a", "u", "t", "i", "o", "n">>, None),
       Flavour(<<"a", "t", "t", "e", "n", "t", "i", "o", "n">>, None),
       Flavour(<<"f", "a", "i", "l", "u", "r", "e">>, None),
       Flavour(<<"f", "a", "i", "l">>, None),
       Flavour(<<"m", "i", "s", "s", "i", "n", "g">>, None),
       Flavour(<<"d", "a", "n", "g", "e", "r">>, None),
       Flavour(<<"e", "r", "r", "o", "r">>, None),
       Flavour(<<"b", "u", "g">>, None),
       Flavour(<<"e", "x", "a", "m", "p", "l", "e">>, None),
       Flavour(<<"q", "u", "o", "t", "e">>, None),
       Flavour(<<"c", "i", "t", "e">>, None) >>

\* HashMap::insert: the last writer of a key keeps it.
HashMap_insert(map, key, value) ==
    [k \in DOMAIN map \cup {key} |-> IF k = key THEN value ELSE map[k]]

\* flavours.rs:96-112, the loop over the custom flavours
RECURSIVE add_custom_flavours(_, _)
add_custom_flavours(map, custom_flavours) ==
    IF custom_flavours = <<>> THEN Ok(map)
    ELSE LET custom == Head(custom_flavours)
         IN IF ~is_valid_directive(custom.directive)
            THEN Err([message |-> "invalid directive", directive |-> custom.directive])
            ELSE IF custom.directive \in DOMAIN map
            THEN Err([message |-> "duplicate custom directive",
                      directive |-> custom.directive])
            ELSE add_custom_flavours(HashMap_insert(map, custom.directive, custom),
                                     Tail(custom_flavours))

\* flavours.rs:114-120, the loop over the builtin flavours
RECURSIVE add_builtin_flavours(_, _)
add_builtin_flavours(map, builtins) ==
    IF builtins = <<>> THEN map
    ELSE add_builtin_flavours(
             HashMap_or_insert(map, Head(builtins).directive, Head(builtins)),
             Tail(builtins))

build_flavour_map(custom_flavours) ==
    LET custom == add_custom_flavours(HashMap_new, custom_flavours)
    IN IF custom.ok THEN Ok(add_builtin_flavours(custom.v, BUILTIN_FLAVOURS))
       ELSE custom

\* book_config.rs: one [[custom]] declaration, and the two forms together.
CustomDirectiveReadonly(directive, conf) == [directive |-> directive, config |-> conf]
ConfigReadonly(custom, directive_custom) ==
    [custom |-> custom, directive |-> [custom |-> directive_custom]]

\* HashMap::extend with (key, value) pairs in order.
RECURSIVE HashMap_extend(_, _)
HashMap_extend(map, entries) ==
    IF entries = <<>> THEN map
    ELSE HashMap_extend(HashMap_insert(map, Head(entries).directive, Head(entries).config),
                        Tail(entries))

\* book_config.rs:78-106
Config_from(other) ==
    [directive |-> [custom |-> HashMap_extend(other.directive.custom, other.custom)]]

\* The custom flavours handed on to the registry, in the order the map of
\* the configuration is iterated in.
custom_flavours_of(conf, order) ==
    [i \in DOMAIN order |-> Flavour(order[i], conf.directive.custom[order[i]].title)]

\* Every order a map may be iterated in.
IterationOrders(map) ==
    { order \in [1..Cardinality(DOMAIN map) -> DOMAIN map] :
        \A i, j \in DOMAIN order : i # j => order[i] # order[j] }

S_invalid == <<"f", "r", " ", "g">>
DeclaredNames == {S_frog, S_newt, S_invalid}
CurrentForm(title) == [title |-> title]

\* [directive.custom.<name>] tables: a TOML table has each name once.
CurrentDeclarations ==
    UNION { [names -> {CurrentForm(Some(<<"C">>))}] : names \in SUBSET DeclaredNames }

RECURSIVE DeprecatedDeclarations(_)
DeprecatedDeclarations(n) ==
    IF n = 0 THEN {<<>>}
    ELSE DeprecatedDeclarations(n - 1) \cup
         { Append(l, CustomDirectiveReadonly(name, CurrentForm(Some(<<"D">>)))) :
             l \in { x \in DeprecatedDeclarations(n - 1) : Len(x) = n - 1 },
             name \in DeclaredNames }

InitRegistry ==
    /\ book_custom = <<>>
    /\ overrides = Overrides(AdmonitionDefaults(None, FALSE, None), HashMap_new,
                             HashMap_new)
    /\ chapter = 0
    /\ id_counter = HashMap_new
    /\ rendered = <<>>
    /\ info_string = Idle
    /\ parsed = Idle
    /\ raw = Idle
    /\ meta = Idle
    /\ RegistryIdle
    /\ ExtractIdle
    /\ DocumentIdle
    /\ RunIdle

\* book_config.rs:23-29: the configuration is read and converted.
admonish_config_from_str(data) ==
    /\ readonly = Idle
    /\ readonly' = data
    /\ book_config' = Config_from(data)
    /\ UNCHANGED <<book_custom, overrides, chapter, id_counter, rendered, info_string,
                   parsed, raw, meta, flavour_map, extract_vars, document_vars, run_vars>>

\* The registry is built from the converted configuration.
build_registry ==
    /\ book_config # Idle
    /\ flavour_map = Idle
    /\ \E order \in IterationOrders(book_config.directive.custom) :
          flavour_map' = build_flavour_map(custom_flavours_of(book_config, order))
    /\ UNCHANGED <<book_custom, overrides, chapter, id_counter, rendered, info_string,
                   parsed, raw, meta, readonly, book_config, extract_vars, document_vars, run_vars>>

NextRegistry ==
    \/ \E custom \in DeprecatedDeclarations(MaxDeprecated),
          directive_custom \in CurrentDeclarations :
          admonish_config_from_str(ConfigReadonly(custom, directive_custom))
    \/ build_registry

SpecRegistry == InitRegistry /\ [][NextRegistry]_vars

RegistryBuilt == flavour_map # Idle
\* The canonical names declared, in either form, one entry per declaration.
DeclaredInvalidName ==
    \/ \E name \in DOMAIN readonly.directive.custom : ~is_valid_directive(name)
    \/ \E i \in DOMAIN readonly.custom : ~is_valid_directive(readonly.custom[i].directive)
DeclaredTwice ==
    \/ \E i, j \in DOMAIN readonly.custom :
          i # j /\ readonly.custom[i].directive = readonly.custom[j].directive
    \/ \E i \in DOMAIN readonly.custom :
          readonly.custom[i].directive \in DOMAIN readonly.directive.custom

\* C14: building the registry fails when a declared custom directive has a
\* canonical name outside ^[A-Za-z0-9_-]+$, or when two declarations, in the
\* current or the deprecated form, have the same canonical name.
C14_InvalidOrDuplicateIsFatal ==
    (RegistryBuilt /\ (DeclaredInvalidName \/ DeclaredTwice)) => ~flavour_map.ok

(***************************************************************************)
(* parse.rs: the body and the closing fence of the span of a fenced block. *)
(* Indexes count from 0, as in the source.                                 *)
(***************************************************************************)
pipeline_vars ==
    <<book_custom, overrides, chapter, id_counter, rendered, info_string, parsed, raw,
      meta>>
PipelineIdle ==
    /\ book_custom = <<>>
    /\ overrides = Overrides(AdmonitionDefaults(None, FALSE, None), HashMap_new,
                             HashMap_new)
    /\ chapter = 0
    /\ id_counter = HashMap_new
    /\ rendered = <<>>
    /\ info_string = Idle
    /\ parsed = Idle
    /\ raw = Idle
    /\ meta = Idle

\* The backtick character. A string of this notation cannot hold one, so the
\* circumflex, which no input here contains otherwise, stands for it.
BACKTICK == "^"

\* str::find of a character: the index of its first occurrence.
find(s, c) ==
    IF \E i \in DOMAIN s : s[i] = c
    THEN Some((CHOOSE i \in DOMAIN s : s[i] = c /\ \A j \in 1..(i - 1) : s[j] # c) - 1)
    ELSE None

extract_admonish_body_start_index(c) ==
    LET index == find(c, "\n")
    IN IF ~is_some(index) THEN 0
       ELSE IF unwrap(index) + 1 > Len(c) - 1 THEN 0
       ELSE unwrap(index) + 1

Fence_new(character, length) == [character |-> character, length |-> length]

\* chars().rev().position(|c| c != fence_character)
rev_position_not(s, fence_character) ==
    IF \E i \in DOMAIN s : s[i] # fence_character
    THEN Some(Len(s) - (CHOOSE i \in DOMAIN s :
                           s[i] # fence_character
                           /\ \A j \in (i + 1)..Len(s) : s[j] = fence_character))
    ELSE None

extract_admonish_body_end_index(c) ==
    LET fence_character == IF c = <<>> THEN BACKTICK ELSE c[Len(c)]
        number_fence_characters == unwrap_or(rev_position_not(c, fence_character), 0)
        fence == Fence_new(fence_character, number_fence_characters)
    IN [index |-> Len(c) - fence.length, fence |-> fence]

Extracted(body, fence) == [panicked |-> FALSE, body |-> body, fence |-> fence]
\* A slice whose start lies after its end panics.
SlicePanic == [panicked |-> TRUE]

extract_admonish_body(c) ==
    LET start_index == extract_admonish_body_start_index(c)
        end == extract_admonish_body_end_index(c)
    IN IF start_index > end.index THEN SlicePanic
       ELSE Extracted(trim_end(SubSeq(c, start_index + 1, end.index)), end.fence)

\* Spans of fenced blocks: an opening fence of three backticks or tildes,
\* then any text of that fence character, a letter, spaces and line breaks.
RECURSIVE Texts(_, _)
Texts(alphabet, n) ==
    IF n = 0 THEN {<<>>}
    ELSE LET shorter == Texts(alphabet, n - 1)
         IN shorter \cup { Append(t, ch) : t \in { x \in shorter : Len(x) = n - 1 },
                                           ch \in alphabet }

Spans ==
    { <<f, f, f>> \o t : f \in {BACKTICK}, t \in Texts({BACKTICK, "a", " ", "\n"}, MaxSpan - 3) }
    \cup { <<f, f, f, f>> \o t : f \in {"~"}, t \in Texts({"~", "\n"}, MaxSpan - 5) }

InitExtract ==
    /\ PipelineIdle
    /\ RunIdle
    /\ DocumentIdle
    /\ RegistryIdle
    /\ ExtractIdle

\* parse.rs:29: the span of a fenced block is taken apart.
extract_span ==
    /\ extracted = Idle
    /\ \E span \in Spans :
          /\ block_content' = span
          /\ extracted' = extract_admonish_body(span)
    /\ UNCHANGED <<pipeline_vars, registry_vars, document_vars, run_vars>>

NextExtract == extract_span

SpecExtract == InitExtract /\ [][NextExtract]_vars

\* How many times the last character of s is repeated at its end.
TrailingRepetitions(s) ==
    CHOOSE n \in 1..Len(s) :
        /\ \A i \in (Len(s) - n + 1)..Len(s) : s[i] = s[Len(s)]
        /\ n = Len(s) \/ s[Len(s) - n] # s[Len(s)]

\* Where the body starts: after the first line break, or at 0 when there is
\* none or nothing follows it.
BodyStart(s) ==
    IF \E i \in 1..(Len(s) - 1) : s[i] = "\n"
    THEN CHOOSE i \in 1..(Len(s) - 1) : s[i] = "\n" /\ \A j \in 1..(i - 1) : s[j] # "\n"
    ELSE 0

\* The text without the white space at its end.
WithoutTrailingSpace(s) ==
    LET keep == { n \in 0..Len(s) : n = 0 \/ ~is_whitespace(s[n]) }
    IN SubSeq(s, 1, CHOOSE n \in keep : \A m \in keep : m <= n)

\* C15: extraction returns the fence made of the last character of the span
\* and the number of its trailing repetitions, and the body
\* span[start .. length - fence length] without its trailing white space.
C15_FenceAndBody ==
    (extracted # Idle) =>
        /\ ~extracted.panicked
        /\ extracted.fence.character = block_content[Len(block_content)]
        /\ extracted.fence.length = TrailingRepetitions(block_content)
        /\ extracted.body =
              WithoutTrailingSpace(
                  SubSeq(block_content, BodyStart(block_content) + 1,
                         Len(block_content) - TrailingRepetitions(block_content)))

(***************************************************************************)
(* parse.rs parse_admonition, and the scan of one document that calls it   *)
(* for every fenced code block.                                            *)
(***************************************************************************)
\* resolve.rs:63: .map(|raw| raw.map(|raw| Self::resolve(raw, overrides)))
map_resolve(instance, ovr) ==
    IF ~is_some(instance) THEN None
    ELSE IF unwrap(instance).ok THEN Some(Ok(resolve(unwrap(instance).v, ovr)))
    ELSE Some(Err(unwrap(instance).e))

\* resolve.rs:58-64
AdmonitionMeta_from_info_string(info, ovr) ==
    map_resolve(InstanceConfig_from_info_string(info).result, ovr)

\* std::iter::repeat(c).take(n).collect()
RECURSIVE repeat_take(_, _)
repeat_take(c, n) == IF n = 0 THEN <<>> ELSE <<c>> \o repeat_take(c, n - 1)

\* parse.rs:51-62: the format! of the body of the substitute admonition, kept
\* as the values of its three holes.
format_failed_with(message, enclosing_fence, raw_content) ==
    [failed_with |-> message,
     enclosing_fence |-> enclosing_fence,
     original_markdown_input |-> raw_content]

\* A mutant of bug_admonition: the substitute shows the error under the
\* presentation of a note, without the original input.
bug_admonition_as_note(message, fence, raw_content, indent) ==
    [directive |-> BuiltinDirective_fmt("Note"),
     title |-> <<"N", "o", "t", "e">>,
     content |-> format_failed_with(message, <<>>, <<>>),
     css_id |-> Some(CssId_Prefix(DEFAULT_CSS_ID_PREFIX)),
     additional_classnames |-> <<>>,
     collapsible |-> FALSE,
     indent |-> indent]

\* parse.rs:37-40 and 46-65: the admonition that stands in for a block whose
\* config did not parse.
bug_admonition(message, fence, raw_content, indent) ==
    [directive |-> BuiltinDirective_fmt("Bug"),
     title |-> <<"E", "r", "r", "o", "r", " ", "r", "e", "n", "d", "e", "r", "i", "n",
                 "g", " ", "a", "d", "m", "o", "n", "i", "s", "h", "m", "e", "n", "t">>,
     content |-> format_failed_with(
                     message, repeat_take(fence.character, fence.length + 1), raw_content),
     css_id |-> Some(CssId_Prefix(DEFAULT_CSS_ID_PREFIX)),
     additional_classnames |-> <<>>,
     collapsible |-> FALSE,
     indent |-> indent]

\* A mutant of bail_error: the error carries the body of the block only.
bail_error_body_only(raw_content) ==
    [message |-> "Error processing admonition, bailing:",
     content |-> IF extract_admonish_body(raw_content).panicked THEN <<>>
                 ELSE extract_admonish_body(raw_content).body]

\* parse.rs:68: anyhow!("Error processing admonition, bailing:\n{content}")
bail_error(raw_content) ==
    [message |-> "Error processing admonition, bailing:", content |-> raw_content]

\* types.rs:155-159
Html == "Html"
Strip == "Strip"
RenderTextMode == {Html, Strip}

Continue == "Continue"
Bail == "Bail"
OnFailure == {Bail, Continue}

Panicked == [outcome |-> "panic"]
Returned(value) == [outcome |-> "return", value |-> value]

\* parse.rs:31-91: what parse_admonition does with the extracted body and
\* fence and with the parsed and resolved info string.
admonition_of(body_and_fence, parsed_info, raw_content, policy, indent) ==
    IF body_and_fence.panicked THEN Panicked
    ELSE IF ~is_some(parsed_info) THEN Returned(None)
    ELSE IF ~unwrap(parsed_info).ok
         THEN IF policy = Continue
              THEN Returned(Some(Ok(bug_admonition(unwrap(parsed_info).e,
                                                   body_and_fence.fence, raw_content,
                                                   indent))))
              ELSE Returned(Some(Err(bail_error(raw_content))))
    ELSE Returned(Some(Ok(Admonition_new(unwrap(parsed_info).v, body_and_fence.body,
                                         indent))))

\* parse.rs:21-92
parse_admonition(info, admonition_defaults, raw_content, policy, indent) ==
    admonition_of(extract_admonish_body(raw_content),
                  AdmonitionMeta_from_info_string(info, admonition_defaults),
                  raw_content, policy, indent)

\* A document is a sequence of pieces of text.  A piece is the span of one
\* fenced code block, together with the info string the markdown parser
\* reports for it, or text that holds no fenced code block.
TextPiece(text) == [kind |-> "text", text |-> text]
CodeBlockPiece(info, text) == [kind |-> "fenced", info |-> info, text |-> text]
\* What the scan put in the place of a block.
RenderedPiece(admonition, anchor_id) ==
    [kind |-> "rendered", admonition |-> admonition, anchor_id |-> anchor_id]
\* render.rs:131-135: format!("\n{}\n", self.content), kept as the value of
\* its hole.
Admonition_strip(self) == [kind |-> "stripped", content |-> self.content]
EndOfLine == TextPiece(<<"\n">>)

\* A key of a key assignment, as written.
KeyText(key) ==
    CASE key = "type" -> <<"t", "y", "p", "e">>
      [] key = "title" -> <<"t", "i", "t", "l", "e">>
      [] key = "id" -> <<"i", "d">>
      [] key = "class" -> <<"c", "l", "a", "s", "s">>
      [] key = "collapsible" ->
            <<"c", "o", "l", "l", "a", "p", "s", "i", "b", "l", "e">>

\* A token of an info string, as written in the document.
TokenText(t) ==
    CASE IsBareValued(t) -> KeyText(t.key) \o <<"=">> \o t.v
      [] t.k = "kv" /\ ~IsBareValued(t) -> KeyText(t.key) \o <<"=", "\"">> \o t.v \o <<"\"">>
      [] t.k = "quoted" -> <<"\"">> \o t.v \o <<"\"">>
      [] t.k = "dot" -> <<".">> \o t.v
      [] OTHER -> t.v

RECURSIVE InfoText(_)
InfoText(info) == IF info = <<>> THEN <<>> ELSE TokenText(Head(info)) \o InfoText(Tail(info))

OpeningFence == <<BACKTICK, BACKTICK, BACKTICK>>
\* A fenced code block with its closing fence: the span ends with the fence.
ClosedBlock(info, body) ==
    CodeBlockPiece(info, OpeningFence \o InfoText(info) \o <<"\n">> \o body \o <<"\n">>
                         \o OpeningFence)
\* A fenced code block that is never closed runs to the end of the document,
\* the blank lines at its end included.
UnclosedBlock(info, rest) == CodeBlockPiece(info, OpeningFence \o InfoText(info) \o rest)

\* Info strings of the blocks of a document: three of admonition blocks, the
\* third with a title that is no TOML or JSON string, and two of other code
\* blocks.
I_admonish == ADMONISH_BLOCK_KEYWORD
I_titled == ADMONISH_BLOCK_KEYWORD \o <<Sp, KeyValue("title", W_T, TRUE)>>
I_malformed == ADMONISH_BLOCK_KEYWORD \o <<Sp, KeyValue("title", W_badescape, FALSE)>>
I_rust == <<Word(W_rust)>>
I_other == ADMONISH_BLOCK_KEYWORD \o <<Comma, Word(W_note)>>
BlockInfos == {I_admonish, I_titled, I_malformed, I_rust, I_other}

ClosedBlocks == { ClosedBlock(info, <<"a">>) : info \in BlockInfos }
\* An admonition block that is never closed, opened by a fence of four
\* backticks: a line of three backticks in it does not close it, and its
\* last line is two backticks.
LongFenceBlock ==
    CodeBlockPiece(I_malformed,
                   <<BACKTICK>> \o OpeningFence \o InfoText(I_malformed)
                       \o <<"\n">> \o OpeningFence \o <<"\n", BACKTICK, BACKTICK>>)
UnclosedBlocks ==
    { UnclosedBlock(info, <<"\n", "\n">>) : info \in {I_admonish, I_malformed, I_rust} }
    \cup {LongFenceBlock}
Paragraphs == { TextPiece(<<"a", "\n">>), EndOfLine }

\* Another piece may follow `piece`: a closing fence is followed by the end
\* of its line, and nothing follows a block that is never closed.
MayFollow(piece, next) ==
    /\ piece \notin UnclosedBlocks
    /\ piece \in ClosedBlocks => next = EndOfLine

RECURSIVE Documents(_)
Documents(n) ==
    IF n = 0 THEN {<<>>}
    ELSE LET shorter == Documents(n - 1)
         IN shorter \cup
            { Append(d, piece) :
                d \in { x \in shorter : Len(x) = n - 1 },
                piece \in ClosedBlocks \cup UnclosedBlocks \cup Paragraphs }

ValidDocument(d) == \A i \in 1..(Len(d) - 1) : MayFollow(d[i], d[i + 1])

InitDocument ==
    /\ book_custom = <<>>
    /\ overrides = Overrides(AdmonitionDefaults(None, FALSE, None), HashMap_new,
                             HashMap_new)
    /\ chapter = 0
    /\ id_counter = HashMap_new
    /\ rendered = <<>>
    /\ info_string = Idle
    /\ parsed = Idle
    /\ raw = Idle
    /\ meta = Idle
    /\ RegistryIdle
    /\ ExtractIdle
    /\ RunIdle
    /\ document \in { d \in Documents(MaxPieces) : ValidDocument(d) }
    /\ on_failure \in OnFailure
    /\ position = 1
    /\ admonish_blocks = <<>>
    /\ output = Idle
    /\ pass = 1
    /\ render_text_mode \in RenderTextMode

Span(start, end) == [start |-> start, end |-> end]
\* The span of piece i, counted in pieces.
SpanOf(i) == Span(i - 1, i)

\* The failure of a run that panicked.
PreprocessPanicked == [ok |-> FALSE, panicked |-> TRUE]
PreprocessErr(e) == [ok |-> FALSE, panicked |-> FALSE, e |-> e]
PreprocessOk(v) == [ok |-> TRUE, panicked |-> FALSE, v |-> v]

\* One turn of the loop over the events of the document: what is not the
\* start of a fenced code block is passed over; a fenced code block goes to
\* parse_admonition: None leaves it alone, an error ends preprocess with
\* that error, and an admonition is given its anchor id, rendered as the
\* render mode says and recorded with the span of the block.  No document
\* is being scanned while position is 0.
preprocess_event ==
    /\ output = Idle
    /\ position >= 1
    /\ position <= Len(document)
    /\ IF document[position].kind # "fenced"
       THEN /\ position' = position + 1
            /\ UNCHANGED <<id_counter, admonish_blocks, output>>
       ELSE \E result \in { parse_admonition(document[position].info, overrides,
                                              document[position].text, on_failure, 0) } :
               IF result.outcome = "panic"
               THEN /\ output' = PreprocessPanicked
                    /\ admonish_blocks' = <<>>
                    /\ UNCHANGED <<id_counter, position>>
               ELSE IF ~is_some(result.value)
               THEN /\ position' = position + 1
                    /\ UNCHANGED <<id_counter, admonish_blocks, output>>
               ELSE IF ~unwrap(result.value).ok
               THEN /\ output' = PreprocessErr(unwrap(result.value).e)
                    /\ admonish_blocks' = <<>>
                    /\ UNCHANGED <<id_counter, position>>
               ELSE \E anchor \in { html_anchor(unwrap(result.value).v, id_counter) } :
                       /\ id_counter' = IF render_text_mode = Strip THEN id_counter
                                        ELSE anchor.id_counter
                       /\ admonish_blocks' =
                              Append(admonish_blocks,
                                     [span |-> SpanOf(position),
                                      block |->
                                          IF render_text_mode = Strip
                                          THEN Admonition_strip(unwrap(result.value).v)
                                          ELSE RenderedPiece(unwrap(result.value).v,
                                                             anchor.anchor_id)])
                       /\ position' = position + 1
                       /\ UNCHANGED output
    /\ UNCHANGED <<book_custom, overrides, chapter, rendered, info_string, parsed, raw,
                   meta, registry_vars, extract_vars, document, on_failure, pass,
                   render_text_mode, run_vars>>

\* The recorded blocks applied in the order they were recorded, the first
\* one first.
RECURSIVE splice_first_block_first(_, _)
splice_first_block_first(text, blocks) ==
    IF blocks = <<>> THEN text
    ELSE LET first == blocks[1]
             pre_content == SubSeq(text, 1, first.span.start)
             post_content == SubSeq(text, first.span.end + 1, Len(text))
         IN splice_first_block_first(pre_content \o <<EndOfLine, first.block>> \o post_content,
                                     Tail(blocks))

\* lib.rs:323-328: the recorded blocks replace their spans, the last one
\* first, each after a line break.
RECURSIVE splice(_, _)
splice(text, blocks) ==
    IF blocks = <<>> THEN text
    ELSE LET last == blocks[Len(blocks)]
             pre_content == SubSeq(text, 1, last.span.start)
             post_content == SubSeq(text, last.span.end + 1, Len(text))
         IN splice(pre_content \o <<EndOfLine, last.block>> \o post_content,
                   SubSeq(blocks, 1, Len(blocks) - 1))

\* lib.rs:322-329: after the last event the text is put together and returned.
preprocess_return ==
    /\ output = Idle
    /\ position >= 1
    /\ position > Len(document)
    /\ output' = PreprocessOk(splice(document, admonish_blocks))
    /\ admonish_blocks' = <<>>
    /\ UNCHANGED <<book_custom, overrides, chapter, id_counter, rendered, info_string,
                   parsed, raw, meta, registry_vars, extract_vars, document, on_failure,
                   position, pass, render_text_mode, run_vars>>

\* The text preprocess returned is handed to preprocess once more.
preprocess_again ==
    /\ output # Idle
    /\ output.ok
    /\ pass < MaxPasses
    /\ document' = output.v
    /\ position' = 1
    /\ id_counter' = HashMap_new
    /\ admonish_blocks' = <<>>
    /\ output' = Idle
    /\ pass' = pass + 1
    /\ UNCHANGED <<book_custom, overrides, chapter, rendered, info_string, parsed, raw,
                   meta, registry_vars, extract_vars, on_failure, render_text_mode, run_vars>>

NextDocument ==
    \/ preprocess_event
    \/ preprocess_return
    \/ preprocess_again

SpecDocument == InitDocument /\ [][NextDocument]_vars

\* The piece is a fenced code block whose info string is the admonition
\* keyword, alone or followed by a space.
IsAdmonitionBlock(piece) ==
    /\ piece.kind = "fenced"
    /\ \/ piece.info = ADMONISH_BLOCK_KEYWORD
       \/ /\ Len(piece.info) >= 2
          /\ SubSeq(piece.info, 1, 2) = ADMONISH_BLOCK_KEYWORD \o <<Sp>>

\* The error the config parser returns for the info string of the piece.
ParseError(piece) == unwrap(InstanceConfig_from_info_string(piece.info).result).e

\* The piece is an admonition block whose config string no generation parses.
ConfigFailsToParse(piece) ==
    /\ IsAdmonitionBlock(piece)
    /\ ~unwrap(InstanceConfig_from_info_string(piece.info).result).ok

\* The replacements recorded for piece i.
RecordedFor(i) ==
    { j \in DOMAIN admonish_blocks : admonish_blocks[j].span = SpanOf(i) }

\* The title of the admonition that stands in for a block that did not parse.
ErrorTitle ==
    <<"E", "r", "r", "o", "r", " ", "r", "e", "n", "d", "e", "r", "i", "n", "g", " ",
      "a", "d", "m", "o", "n", "i", "s", "h", "m", "e", "n", "t">>

FirstFailing ==
    CHOOSE i \in DOMAIN document :
        /\ ConfigFailsToParse(document[i])
        /\ \A k \in 1..(i - 1) : ~ConfigFailsToParse(document[k])

C18_ContinueNeverFails ==
    (on_failure = Continue /\ output # Idle) => output.ok

\* C19: for a document without an admonition block preprocess returns the
\* text of the document unchanged, the first time and every further time.
C19_NoAdmonitionNoChange ==
    ((\A i \in DOMAIN document : ~IsAdmonitionBlock(document[i])) /\ output # Idle) =>
        output.ok /\ output.v = document

\* The text with every recorded span replaced by `before` and the block
\* recorded for it, and every piece outside the recorded spans kept, read
\* from piece i on.
RECURSIVE ReplacedFrom(_, _, _, _)
ReplacedFrom(text, blocks, before, i) ==
    IF i > Len(text) THEN <<>>
    ELSE LET here == { k \in DOMAIN blocks : blocks[k].span = SpanOf(i) }
         IN (IF here = {} THEN <<text[i]>>
             ELSE before \o <<blocks[CHOOSE k \in here : TRUE].block>>)
            \o ReplacedFrom(text, blocks, before, i + 1)

\* The recorded spans lie in the text, one after the other: replacing the
\* last one first, the offsets of a span are offsets of text that no
\* replacement made before has moved.
SpansInOrder(blocks, length) ==
    \A k \in DOMAIN blocks :
        /\ 0 <= blocks[k].span.start
        /\ blocks[k].span.start < blocks[k].span.end
        /\ blocks[k].span.end <= length
        /\ k > 1 => blocks[k - 1].span.end <= blocks[k].span.start

\* preprocess returns the rewritten text in this step.
ReturnsText == output = Idle /\ output' # Idle /\ output'.ok

RECURSIVE Lines(_)
Lines(text) ==
    IF \E i \in DOMAIN text : text[i] = "\n"
    THEN LET i == CHOOSE k \in DOMAIN text :
                      text[k] = "\n" /\ \A j \in 1..(k - 1) : text[j] # "\n"
         IN <<SubSeq(text, 1, i - 1)>> \o Lines(SubSeq(text, i + 1, Len(text)))
    ELSE <<text>>

LeadingSpaces(line) ==
    IF \A i \in DOMAIN line : line[i] = " " THEN Len(line)
    ELSE (CHOOSE i \in DOMAIN line : line[i] # " " /\ \A j \in 1..(i - 1) : line[j] = " ") - 1

\* The line closes a code block opened by `fence`: after at most three
\* spaces it holds the character of the fence only, at least as many times
\* as the fence does, and then nothing but white space.
ClosesFence(line, fence) ==
    LET closing == WithoutTrailingSpace(SubSeq(line, LeadingSpaces(line) + 1, Len(line)))
    IN /\ fence # <<>>
       /\ LeadingSpaces(line) <= 3
       /\ Len(closing) >= Len(fence)
       /\ \A i \in DOMAIN closing : closing[i] = fence[1]

\* The body of the replacement recorded as admonish_blocks[j].
RecordedBody(j) ==
    IF admonish_blocks[j].block.kind = "stripped" THEN admonish_blocks[j].block.content
    ELSE admonish_blocks[j].block.admonition.content

\* C22: in the body of the admonition that stands in for a block whose
\* config failed to parse, the raw block is quoted inside a fence of one
\* more repetition of the fence character than the fence detected at the end
\* of the block has, and no line of the quoted block closes that fence.
C22_EnclosingFenceNotClosedEarly ==
    (on_failure = Continue /\ output = Idle) =>
        \A i \in 1..(position - 1) :
            ConfigFailsToParse(document[i]) =>
                \A j \in RecordedFor(i) :
                    LET raw_block == document[i].text
                        quoted == RecordedBody(j)
                    IN /\ quoted.original_markdown_input = raw_block
                       /\ quoted.enclosing_fence =
                              [n \in 1..(TrailingRepetitions(raw_block) + 1) |->
                                  raw_block[Len(raw_block)]]
                       /\ \A n \in DOMAIN Lines(raw_block) :
                              ~ClosesFence(Lines(raw_block)[n], quoted.enclosing_fence)

(***************************************************************************)
(* preprocessor.rs Admonish::run: the render mode of the run, and the      *)
(* chapters of the book handed to preprocess one after the other.          *)
(***************************************************************************)
\* book_config.rs:153-159
Preserve == "Preserve"
RenderMode == {Preserve, Strip, Html}
\* book_config.rs:148-151
RendererConfig(mode) == [render_mode |-> mode]
\* book_config.rs:61-76, the fields the run reads here
Config(policy, renderer, assets_version) ==
    [on_failure |-> policy, renderer |-> renderer, assets_version |-> assets_version]

RunOk(book) == [ok |-> TRUE, book |-> book]
RunErr(e) == [ok |-> FALSE, e |-> e]

\* preprocessor.rs:85-118.  A version is kept as whether the required
\* version range matches it.
ensure_compatible_assets_version(config) ==
    IF ~is_some(config.assets_version)
    THEN Err("required assets version, but did not find a version")
    ELSE IF ~unwrap(config.assets_version).matches
    THEN Err("required assets version, but found another")
    ELSE Ok(<<>>)

\* A mutant of render_mode_of: every renderer without a configured mode gets
\* html.
render_mode_of_html_by_default(config, renderer) ==
    LET configured == HashMap_get(config.renderer, renderer)
    IN IF is_some(configured) /\ is_some(unwrap(configured).render_mode)
       THEN unwrap(unwrap(configured).render_mode)
       ELSE Html

\* preprocessor.rs:32-44
render_mode_of(config, renderer) ==
    LET configured == HashMap_get(config.renderer, renderer)
    IN IF is_some(configured) /\ is_some(unwrap(configured).render_mode)
       THEN unwrap(unwrap(configured).render_mode)
       ELSE IF renderer = "html" THEN Html ELSE Preserve

\* The renderers a book configuration may name, and the run may be for.
RendererNames == {"html", "test"}
RendererTables ==
    UNION { [names -> { RendererConfig(mode) :
                          mode \in {None} \cup { Some(x) : x \in RenderMode } }] :
            names \in SUBSET RendererNames }
AssetsVersions == {None, Some([matches |-> TRUE]), Some([matches |-> FALSE])}

\* The chapters of a book: plain text, an admonition block, and an
\* admonition block whose config does not parse.
RunChapters ==
    { <<TextPiece(<<"a", "\n">>)>>,
      <<ClosedBlock(I_titled, <<"a">>)>>,
      <<ClosedBlock(I_malformed, <<"a">>), EndOfLine>> }
RECURSIVE Books(_)
Books(n) ==
    IF n = 0 THEN {<<>>}
    ELSE LET shorter == Books(n - 1)
         IN shorter \cup { Append(b, c) : b \in { x \in shorter : Len(x) = n - 1 },
                                          c \in RunChapters }

InitRun ==
    /\ book_custom = <<>>
    /\ overrides = Overrides(AdmonitionDefaults(None, FALSE, None), HashMap_new,
                             HashMap_new)
    /\ chapter = 0
    /\ id_counter = HashMap_new
    /\ rendered = <<>>
    /\ info_string = Idle
    /\ parsed = Idle
    /\ raw = Idle
    /\ meta = Idle
    /\ RegistryIdle
    /\ ExtractIdle
    /\ document = <<>>
    /\ on_failure = Idle
    /\ position = 0
    /\ admonish_blocks = <<>>
    /\ output = Idle
    /\ pass = 1
    /\ render_text_mode = Idle
    /\ ctx_renderer \in RendererNames
    /\ run_config \in { Config(policy, renderer, assets_version) :
                          policy \in OnFailure,
                          renderer \in RendererTables,
                          assets_version \in AssetsVersions }
    /\ book_items \in Books(MaxChapters)
    /\ render_mode = Idle
    /\ run_result = Idle

\* preprocessor.rs:21-50: the configuration is checked, the render mode is
\* settled, and under preserve the book is returned as it came.
run_begin ==
    /\ run_result = Idle
    /\ render_mode = Idle
    /\ LET compatible == ensure_compatible_assets_version(run_config)
           mode == render_mode_of(run_config, ctx_renderer)
       IN IF ~compatible.ok
          THEN /\ run_result' = RunErr(compatible.e)
               /\ UNCHANGED <<render_mode, on_failure, render_text_mode>>
          ELSE /\ render_mode' = Some(mode)
               /\ on_failure' = run_config.on_failure
               /\ IF mode = Preserve
                  THEN run_result' = RunOk(book_items) /\ UNCHANGED render_text_mode
                  ELSE render_text_mode' = mode /\ UNCHANGED run_result
    /\ UNCHANGED <<pipeline_vars, registry_vars, extract_vars, document, position,
                   admonish_blocks, output, pass, ctx_renderer, run_config,
                   book_items>>

\* preprocessor.rs:53-60: the next chapter of the book is handed to
\* preprocess, which starts with a fresh counter and nothing recorded.
run_chapter ==
    /\ render_mode \notin {Idle, Some(Preserve)}
    /\ run_result = Idle
    /\ position = 0
    /\ chapter < Len(book_items)
    /\ chapter' = chapter + 1
    /\ document' = book_items[chapter + 1]
    /\ position' = 1
    /\ id_counter' = HashMap_new
    /\ admonish_blocks' = <<>>
    /\ UNCHANGED <<book_custom, overrides, rendered, info_string, parsed, raw, meta,
                   registry_vars, extract_vars, on_failure, output, pass,
                   render_text_mode, run_vars>>

\* The loop of preprocessor.rs:53-72 without the early return of lines 54-56:
\* the result of a chapter is overwritten by the result of the next one, so
\* only the error of the last chapter ends the run.
run_chapter_done_last_result ==
    /\ output # Idle
    /\ run_result = Idle
    /\ IF output.ok
       THEN /\ book_items' = [book_items EXCEPT ![chapter] = output.v]
            /\ UNCHANGED run_result
       ELSE /\ run_result' = IF chapter = Len(book_items) THEN output ELSE run_result
            /\ UNCHANGED book_items
    /\ document' = <<>>
    /\ position' = 0
    /\ output' = Idle
    /\ UNCHANGED <<pipeline_vars, registry_vars, extract_vars, on_failure,
                   admonish_blocks, pass, render_text_mode, ctx_renderer, run_config,
                   render_mode>>

\* preprocessor.rs:53-56 and 67-75: the text preprocess returned becomes the
\* text of the chapter; an error ends the run, no later chapter is looked at.
run_chapter_done ==
    /\ output # Idle
    /\ run_result = Idle
    /\ IF output.ok
       THEN /\ book_items' = [book_items EXCEPT ![chapter] = output.v]
            /\ UNCHANGED run_result
       ELSE /\ run_result' = output
            /\ UNCHANGED book_items
    /\ document' = <<>>
    /\ position' = 0
    /\ output' = Idle
    /\ UNCHANGED <<pipeline_vars, registry_vars, extract_vars, on_failure,
                   admonish_blocks, pass, render_text_mode, ctx_renderer, run_config,
                   render_mode>>

\* preprocessor.rs:75: after the last chapter the book is returned.
run_end ==
    /\ render_mode \notin {Idle, Some(Preserve)}
    /\ run_result = Idle
    /\ position = 0
    /\ chapter = Len(book_items)
    /\ run_result' = RunOk(book_items)
    /\ UNCHANGED <<pipeline_vars, registry_vars, extract_vars, document_vars,
                   ctx_renderer, run_config, book_items, render_mode>>

NextRun ==
    \/ run_begin
    \/ run_chapter
    \/ preprocess_event
    \/ preprocess_return
    \/ run_chapter_done
    \/ run_end

SpecRun == InitRun /\ [][NextRun]_vars

\* The render mode the configuration asks for: the mode configured for the
\* active renderer if there is one, else html for the renderer "html" and
\* preserve for any other.
ConfiguredOrDefaultMode ==
    IF /\ ctx_renderer \in DOMAIN run_config.renderer
       /\ run_config.renderer[ctx_renderer].render_mode # None
    THEN run_config.renderer[ctx_renderer].render_mode[1]
    ELSE IF ctx_renderer = "html" THEN Html ELSE Preserve

\* C20: the step of a run that settles the render mode settles on the mode
\* configured for the active renderer, else html for "html" and preserve for
\* every other renderer; under preserve that step returns the book with the
\* text of every chapter as it came, and nothing changes afterwards.
C20_RenderModeAndPreserve ==
    [][/\ (render_mode = Idle /\ render_mode' # Idle) =>
             /\ render_mode' = Some(ConfiguredOrDefaultMode)
             /\ render_mode' = Some(Preserve) =>
                   run_result' = RunOk(book_items) /\ book_items' = book_items
       /\ render_mode = Some(Preserve) =>
             book_items' = book_items /\ run_result' = run_result
      ]_vars

\* C20 witness: a run for a renderer other than html, with no mode configured
\* for it, returned a book that holds an admonition block.
C20_Witness ==
    /\ render_mode = Some(Preserve)
    /\ ctx_renderer # "html"
    /\ ctx_renderer \notin DOMAIN run_config.renderer
    /\ run_result # Idle
    /\ run_result.ok
    /\ \E i \in DOMAIN run_result.book :
          \E k \in DOMAIN run_result.book[i] : IsAdmonitionBlock(run_result.book[i][k])

\* C28: in a run the chapters are taken in book order, each one only while no
\* chapter has returned an error; the step that takes the error of a chapter
\* makes it the result of the run and leaves every chapter as it is; and once
\* the run has an error as its result, no chapter is taken or changed and the
\* result stays that error.
C28_FirstErrorEndsRun ==
    [][/\ chapter' # chapter =>
             /\ run_result = Idle
             /\ chapter' = chapter + 1
             /\ document' = book_items[chapter']
             /\ book_items' = book_items
       /\ (output # Idle /\ ~output.ok /\ output' = Idle) =>
             /\ run_result' = output
             /\ book_items' = book_items
       /\ (run_result # Idle /\ ~run_result.ok) =>
             /\ chapter' = chapter
             /\ book_items' = book_items
             /\ run_result' = run_result
             /\ position' = 0
      ]_vars

\* C28 witness: the run ended with the error of a chapter that is followed by
\* an admonition block chapter which renders without error, and that later
\* chapter still holds its block.
C28_Witness ==
    /\ run_result # Idle
    /\ ~run_result.ok
    /\ render_mode = Some(Html)
    /\ chapter >= 1
    /\ chapter < Len(book_items)
    /\ book_items[chapter] = <<ClosedBlock(I_malformed, <<"a">>), EndOfLine>>
    /\ \E i \in (chapter + 1)..Len(book_items) :
          book_items[i] = <<ClosedBlock(I_titled, <<"a">>)>>

(***************************************************************************)
(* The custom directives of the book configuration on their way from       *)
(* book.toml to the lookup map: the tables are read into a map keyed by    *)
(* canonical name, and the entries of that map are collected into the      *)
(* CustomDirectiveMap in the order the map is iterated in.                 *)
(***************************************************************************)
\* book_config.rs:117-136, the fields kept at run time
CustomDirectiveConfig(aliases, title, collapsible) ==
    [aliases |-> aliases, title |-> title, collapsible |-> collapsible]

\* types.rs:97-112
CustomDirective_from(directive, config) ==
    CustomDirective(directive, config.aliases, config.title, config.collapsible)

\* book_config.rs:108-115: [directive.custom.<name>] tables, read into a
\* HashMap keyed by name; `declared` holds them in the order of book.toml.
DirectiveConfig_custom(declared) ==
    [name \in { declared[i].directive : i \in DOMAIN declared } |->
        LET table == declared[CHOOSE i \in DOMAIN declared : declared[i].directive = name]
        IN CustomDirectiveConfig(table.aliases, table.title, table.collapsible)]

\* The entries of the map converted (types.rs:97-112), in the order `order`.
custom_directives_of(map, order) ==
    [i \in DOMAIN order |-> CustomDirective_from(order[i], map[order[i]])]

InitCustomMap ==
    /\ PipelineIdle
    /\ RegistryIdle
    /\ ExtractIdle
    /\ DocumentIdle
    /\ RunIdle

\* The configuration is read: the tables as declared, and the map they are
\* kept in.
load_directive_config(declared) ==
    /\ readonly = Idle
    /\ readonly' = declared
    /\ book_config' = [directive |-> [custom |-> DirectiveConfig_custom(declared)]]
    /\ UNCHANGED <<pipeline_vars, flavour_map, extract_vars, document_vars, run_vars>>

\* types.rs:131-146: the lookup map is collected from the entries of the
\* configuration map, in the order a HashMap happens to yield them.
collect_custom_directives ==
    /\ book_config # Idle
    /\ book_custom = <<>>
    /\ meta = Idle
    /\ \E order \in IterationOrders(book_config.directive.custom) :
          /\ book_custom' = custom_directives_of(book_config.directive.custom, order)
          /\ overrides' =
                Overrides(overrides.book, overrides.builtin,
                          CustomDirectiveMap_from_iter(
                              custom_directives_of(book_config.directive.custom, order)))
    /\ UNCHANGED <<chapter, id_counter, rendered, info_string, parsed, raw, meta,
                   registry_vars, extract_vars, document_vars, run_vars>>

\* A block names a directive token and nothing else.
LookupInputs == { InstanceConfig(token, None, None, <<>>, None) : token \in ResolveTokens }

\* resolve.rs:80: the token of a block is looked up in the collected map.
lookup_directive ==
    /\ book_custom # <<>>
    /\ \E instance \in LookupInputs : resolve_instance(instance)

NextCustomMap ==
    \/ \E declared \in { l \in CustomLists(MaxCustom) : DistinctNames(l) } :
          load_directive_config(declared)
    \/ collect_custom_directives
    \/ lookup_directive

SpecCustomMap == InitCustomMap /\ [][NextCustomMap]_vars

\* The places in book.toml of the custom directives that list the token
\* among their aliases.
ClaimedBy(token) == { i \in DOMAIN readonly : token \in Range(readonly[i].aliases) }

\* What the lookup of the token gives when the configuration map is
\* iterated in the order `order`.
LookupUnder(order, token) ==
    Directive_from_str(
        CustomDirectiveMap_from_iter(
            custom_directives_of(book_config.directive.custom, order)),
        token)

\* C23: a token that two custom directives list as an alias is looked up as
\* the one of them that book.toml declares first, whatever the order the
\* configuration map is iterated in.
C23_FirstDeclaredKeepsAlias ==
    (Resolved /\ Cardinality(ClaimedBy(raw.directive)) >= 2) =>
        LET first == CHOOSE i \in ClaimedBy(raw.directive) :
                         \A k \in ClaimedBy(raw.directive) : i <= k
        IN /\ meta.lookup = Ok(Directive_Custom(readonly[first]))
           /\ \A order \in IterationOrders(book_config.directive.custom) :
                  LookupUnder(order, raw.directive) = meta.lookup

(***************************************************************************)
(* render.rs: the text Admonition::html and Admonition::strip write for    *)
(* one block, and the step of the scan that parses, renders and records    *)
(* the block.                                                              *)
(***************************************************************************)
T_details == <<"d", "e", "t", "a", "i", "l", "s">>
T_summary == <<"s", "u", "m", "m", "a", "r", "y">>
T_div == <<"d", "i", "v">>
T_admonish_ == <<"a", "d", "m", "o", "n", "i", "s", "h", "-">>
T_title_class == <<" ", "c", "l", "a", "s", "s", "=", "\"", "a", "d", "m", "o", "n", "i", "t", "i", "o", "n", "-", "t", "i", "t", "l", "e", "\"", ">">>
T_anchor_link == <<"<", "a", " ", "c", "l", "a", "s", "s", "=", "\"", "a", "d", "m", "o", "n", "i", "t", "i", "o", "n", "-", "a", "n", "c", "h", "o", "r", "-", "l", "i", "n", "k", "\"", " ", "h", "r", "e", "f", "=", "\"", "#">>
T_anchor_end == <<"\"", ">", "<", "/", "a", ">">>
T_id == <<" ", "i", "d", "=", "\"">>
T_class == <<"\"", " ", "c", "l", "a", "s", "s", "=", "\"", "a", "d", "m", "o", "n", "i", "t", "i", "o", "n", " ">>
T_tag_end == <<"\"", ">">>

\* render.rs:11-28
Directive_classname(directive) == T_admonish_ \o directive

\* render.rs:103-111: the directive classname, then a space and a classname
\* for every additional classname.
RECURSIVE push_classnames(_, _)
push_classnames(buffer, additional_classnames) ==
    IF additional_classnames = <<>> THEN buffer
    ELSE push_classnames(buffer \o <<" ">> \o Head(additional_classnames),
                         Tail(additional_classnames))

\* render.rs:87-101
title_html_of(self, anchor_id, indent) ==
    LET title_block == IF self.collapsible THEN T_summary ELSE T_div
    IN IF self.title # <<>>
       THEN indent \o <<"<">> \o title_block \o T_title_class \o <<"\n">>
            \o indent \o <<"\n">>
            \o indent \o self.title \o <<"\n">>
            \o indent \o <<"\n">>
            \o indent \o T_anchor_link \o anchor_id \o T_anchor_end \o <<"\n">>
            \o indent \o <<"<", "/">> \o title_block \o <<">", "\n">>
       ELSE <<>>

\* A mutant of Admonition_html: the title bar is left out.
Admonition_html_without_title(self, anchor_id) ==
    LET indent == repeat_take(" ", self.indent)
        admonition_block == IF self.collapsible THEN T_details ELSE T_div
    IN <<"\n">>
       \o indent \o <<"<">> \o admonition_block \o T_id \o anchor_id \o T_class
           \o push_classnames(Directive_classname(self.directive),
                              self.additional_classnames)
           \o T_tag_end \o <<"\n">>
       \o indent \o <<"<">> \o T_div \o <<">", "\n">>
       \o indent \o <<"\n">>
       \o indent \o self.content \o <<"\n">>
       \o indent \o <<"\n">>
       \o indent \o <<"<", "/">> \o T_div \o <<">", "\n">>
       \o indent \o <<"<", "/">> \o admonition_block \o <<">">>

\* render.rs:82-127: the text of the block, given its anchor id.
Admonition_html(self, anchor_id) ==
    LET indent == repeat_take(" ", self.indent)
        admonition_block == IF self.collapsible THEN T_details ELSE T_div
    IN <<"\n">>
       \o indent \o <<"<">> \o admonition_block \o T_id \o anchor_id \o T_class
           \o push_classnames(Directive_classname(self.directive),
                              self.additional_classnames)
           \o T_tag_end \o <<"\n">>
       \o title_html_of(self, anchor_id, indent)
       \o indent \o <<"<">> \o T_div \o <<">", "\n">>
       \o indent \o <<"\n">>
       \o indent \o self.content \o <<"\n">>
       \o indent \o <<"\n">>
       \o indent \o <<"<", "/">> \o T_div \o <<">", "\n">>
       \o indent \o <<"<", "/">> \o admonition_block \o <<">">>

\* render.rs:131-135: format!("\n{}\n", self.content)
strip(self) == <<"\n">> \o self.content \o <<"\n">>

\* Info strings of the blocks rendered: the keyword alone; an empty title;
\* two classnames and an id; a directive with title, classnames and
\* collapsible; an empty title and collapsible.
I_untitled == ADMONISH_BLOCK_KEYWORD \o <<Sp, KeyValue("title", <<>>, TRUE)>>
I_classes ==
    ADMONISH_BLOCK_KEYWORD
        \o <<Sp, KeyValue("class", <<"x", " ", "y">>, TRUE), Comma, KeyValue("id", <<"z">>, TRUE)>>
I_full ==
    ADMONISH_BLOCK_KEYWORD
        \o <<Sp, Word(W_warning), Sp, KeyValue("title", W_T, TRUE), Comma,
             KeyValue("class", <<"x", " ", "y">>, TRUE), Comma,
             KeyValue("collapsible", W_true, TRUE)>>
I_untitled_collapsible ==
    ADMONISH_BLOCK_KEYWORD
        \o <<Sp, KeyValue("title", <<>>, TRUE), Comma, KeyValue("collapsible", W_true, TRUE)>>
RenderInfos == {I_admonish, I_untitled, I_classes, I_full, I_untitled_collapsible}

\* Bodies of the blocks rendered, line by line, as written at the left edge
\* of the block: one line, two lines, a second line with a space of its
\* own, no line at all, and a line followed by an empty one.
RenderBodies ==
    { <<<<"a">>>>, <<<<"a">>, <<"b">>>>, <<<<"a">>, <<" ", "b">>>>, <<>>, <<<<"a">>, <<>>>> }

\* The lines of a block each after the indentation of the block, as they
\* stand in the document.
RECURSIVE IndentedLines(_, _)
IndentedLines(indent, lines) ==
    IF lines = <<>> THEN <<>>
    ELSE repeat_take(" ", indent) \o Head(lines) \o <<"\n">>
         \o IndentedLines(indent, Tail(lines))

\* A closed block whose lines all stand `indent` spaces in, as in an item of
\* a list: its span starts at the opening fence and ends with the closing
\* fence, and the scan hands on the indentation of the opening fence line.
IndentedBlock(indent, info, lines) ==
    [kind |-> "fenced", info |-> info, indent |-> indent,
     text |-> OpeningFence \o InfoText(info) \o <<"\n">> \o IndentedLines(indent, lines)
              \o repeat_take(" ", indent) \o OpeningFence]

InitRender ==
    /\ PipelineIdle
    /\ RegistryIdle
    /\ ExtractIdle
    /\ RunIdle
    /\ \E indent \in 0..MaxIndent, info \in RenderInfos, lines \in RenderBodies :
          document = <<IndentedBlock(indent, info, lines)>>
    /\ on_failure = Continue
    /\ position = 1
    /\ admonish_blocks = <<>>
    /\ output = Idle
    /\ pass = 1
    /\ render_text_mode \in RenderTextMode

\* What the scan does for one fenced block that is an admonition: the block
\* is parsed (parse.rs:21-92) and rendered as the render mode says, by
\* Admonition::html (render.rs:61-128) or Admonition::strip
\* (render.rs:131-135); only html takes an anchor id from the counter.
render_block ==
    /\ position = 1
    /\ rendered = <<>>
    /\ \E result \in { parse_admonition(document[1].info, overrides, document[1].text,
                                        on_failure, document[1].indent) } :
          /\ result.outcome = "return"
          /\ is_some(result.value)
          /\ unwrap(result.value).ok
          /\ \E anchor \in { html_anchor(unwrap(result.value).v, id_counter) } :
                IF render_text_mode = Strip
                THEN /\ rendered' = <<[admonition |-> unwrap(result.value).v,
                                       text |-> strip(unwrap(result.value).v)]>>
                     /\ UNCHANGED id_counter
                ELSE /\ rendered' = <<[admonition |-> unwrap(result.value).v,
                                       anchor_id |-> anchor.anchor_id,
                                       text |-> Admonition_html(unwrap(result.value).v,
                                                                anchor.anchor_id)]>>
                     /\ id_counter' = anchor.id_counter
    /\ position' = 2
    /\ UNCHANGED <<book_custom, overrides, chapter, info_string, parsed, raw, meta,
                   registry_vars, extract_vars, document, on_failure, admonish_blocks,
                   output, pass, render_text_mode, run_vars>>

NextRender == render_block

SpecRender == InitRender /\ [][NextRender]_vars

\* One block has been rendered as HTML.
RenderedHtml == rendered # <<>> /\ render_text_mode = Html

\* The texts joined, a space between neighbours.
RECURSIVE JoinWithSpaces(_)
JoinWithSpaces(texts) ==
    IF texts = <<>> THEN <<>>
    ELSE IF Len(texts) = 1 THEN texts[1]
    ELSE texts[1] \o <<" ">> \o JoinWithSpaces(Tail(texts))

\* The text holds `part` somewhere.
Holds(text, part) ==
    \E i \in 1..(Len(text) - Len(part) + 1) : SubSeq(text, i, i + Len(part) - 1) = part

C25_EveryLineIndentedAsFence ==
    RenderedHtml =>
        LET lines == Lines(rendered[1].text)
        IN \A n \in 2..Len(lines) :
              LeadingSpaces(lines[n]) = rendered[1].admonition.indent

\* One block has been rendered under strip mode.
RenderedStripped == rendered # <<>> /\ render_text_mode = Strip

\* How many line breaks the text holds.
LineBreaks(text) == Cardinality({ i \in DOMAIN text : text[i] = "\n" })

\* C26: under strip mode the replacement of an admonition block is a line
\* break, the body of the block and a line break, and it holds as many
\* line breaks as the span of the block, so that the text after the block
\* stays on its line.
C26_StripKeepsLineNumbers ==
    RenderedStripped =>
        LET span == document[1].text
            body == WithoutTrailingSpace(
                        SubSeq(span, BodyStart(span) + 1,
                               Len(span) - TrailingRepetitions(span)))
        IN /\ rendered[1].text = <<"\n">> \o body \o <<"\n">>
           /\ LineBreaks(rendered[1].text) = LineBreaks(span)

\* C27: for every span handed to the extraction, the start index and the
\* end index it computes satisfy 0 <= start <= end <= length of the span,
\* and the extraction returns a body.
C27_IndicesInOrder ==
    (extracted # Idle) =>
        LET start_index == extract_admonish_body_start_index(block_content)
            end_index == extract_admonish_body_end_index(block_content).index
        IN /\ 0 <= start_index
           /\ start_index <= end_index
           /\ end_index <= Len(block_content)
           /\ ~extracted.panicked

====
